---- MODULE Spec2Model ----
(***************************************************************************)
(* Model of the Notion <-> Markdown codec (markdown.ts), the rate limiter   *)
(* (notion-client.ts) and the block tools that use them.                    *)
(*                                                                          *)
(* Text is a sequence of one-character strings.  Every regular expression   *)
(* of the source is translated to an operator that computes what the        *)
(* JavaScript engine computes for it (greedy / lazy quantifiers, priority   *)
(* of the alternation, backtracking where it can change the result).        *)
(***************************************************************************)
EXTENDS Integers, Sequences, FiniteSets, TLC

VARIABLES
  sPhase, sRuns, sText, sOut,
  dPhase, dText, dI, dBlocks, dMd, dBlocks2, dMd2,
  tokens, sinceRefill, queue, draining, timer, calls, fetchLog,
  hPhase, hPage, hMeta, cfg, result, failed, actor,
  rPhase, rContent, rPage, existing, rI, settled, deletedCount, deleteFailed,
  newBlocks, rJ, createdCount, rResult,
  windowLoad, sent, bd, ub

\* span codec: the runs given, the text, the runs decoded
spanVars == <<sPhase, sRuns, sText, sOut>>
\* decode engine: the input text, the cursor i and the blocks array of
\* markdownToBlocks, then the text encoded from the blocks, the blocks
\* decoded from that text and the text encoded from those
decVars == <<dPhase, dText, dI, dBlocks, dMd, dBlocks2, dMd2>>
\* rate limiter (notion-client.ts): tokens, the time elapsed since
\* lastRefill, the queue of waiting calls, the draining flag and the time
\* left on the drain loop's setTimeout (-1: none pending); the state of
\* every call made through apiCall and the children.list requests sent
\* windowLoad is the history of the admissions: the largest, over the
\* windows that end now, of the calls admitted in the window minus the
\* tokens the bucket refills in a time of the window's length
limVars ==
  <<tokens, sinceRefill, queue, draining, timer, calls, fetchLog, windowLoad>>
\* get_page invocations: the handler's position, its page, whether
\* pages.retrieve has answered, the call stack of the encode, the handler's
\* result; which of its calls have failed, and the invocation that took
\* the last step
encVars == <<hPhase, hPage, hMeta, cfg, result, failed, actor>>
\* replace_page_content: the handler's position, its content argument, the
\* page's blocks on the server, and the handler's locals: existing, i of the
\* delete loop, the results of the batch, the counters, newBlocks, i of the
\* insert loop; the handler's result
repVars ==
  <<rPhase, rContent, rPage, existing, rI, settled, deletedCount,
    deleteFailed, newBlocks, rJ, createdCount, rResult>>
\* callers of apiCall: the number of calls made
cliVars == <<sent>>
\* batch_delete_blocks and update_block: the handler's position, argument,
\* locals and result; what the provider was asked and answered
toolVars == <<bd, ub>>
vars == <<spanVars, decVars, limVars, encVars, repVars, cliVars, toolVars>>
exceptSpan == <<decVars, limVars, encVars, repVars, cliVars, toolVars>>
exceptDec == <<spanVars, limVars, encVars, repVars, cliVars, toolVars>>
exceptEnc == <<spanVars, decVars, repVars, cliVars, toolVars>>
exceptRep == <<spanVars, decVars, encVars, cliVars, toolVars>>
exceptCli == <<spanVars, decVars, encVars, repVars, toolVars>>
exceptTool == <<spanVars, decVars, encVars, repVars, cliVars>>

-----------------------------------------------------------------------------
(* Text helpers                                                             *)

\* The backquote character (a string literal cannot hold it).
BTick == "bq"

Min(S) == CHOOSE x \in S : \A y \in S : x <= y

\* JavaScript \s and String.prototype.trim(): the white space of the inputs.
WS == {" ", "\t"}
\* "." of a JavaScript regular expression matches no line terminator.
LineTerm == {"\n", "\r"}
\* \d and \w of a JavaScript regular expression
Digit == {"0", "1", "2", "3", "4", "5", "6", "7", "8", "9"}
LowerCh == {"a", "b", "c", "d", "e", "f", "g", "h", "i", "j", "k", "l", 
  "m", "n", "o", "p", "q", "r", "s", "t", "u", "v", "w", "x", "y", "z"}
UpperCh == {"A", "B", "C", "D", "E", "F", "G", "H", "I", "J", "K", "L", 
  "M", "N", "O", "P", "Q", "R", "S", "T", "U", "V", "W", "X", "Y", "Z"}
WordCh == LowerCh \cup UpperCh \cup Digit \cup {"_"}

Drop(t, n) == IF n >= Len(t) THEN <<>> ELSE SubSeq(t, n + 1, Len(t))
Slice(t, a, b) == IF a > b THEN <<>> ELSE SubSeq(t, a, b)

\* t has pat at position p.
At(t, p, pat) ==
  /\ p >= 1
  /\ p + Len(pat) - 1 <= Len(t)
  /\ \A k \in 1..Len(pat) : t[p + k - 1] = pat[k]

\* First position >= p whose character is in S (Len(t)+1 when there is none).
FirstIn(t, p, S) ==
  LET hits == {k \in p..Len(t) : t[k] \in S}
  IN IF hits = {} THEN Len(t) + 1 ELSE Min(hits)

\* First position >= p whose character is not in S.
FirstNotIn(t, p, S) ==
  LET hits == {k \in p..Len(t) : t[k] \notin S}
  IN IF hits = {} THEN Len(t) + 1 ELSE Min(hits)

\* String.prototype.trim()
Trim(t) ==
  LET a == FirstNotIn(t, 1, WS)
      keep == {k \in 1..Len(t) : t[k] \notin WS}
  IN IF keep = {} THEN <<>>
     ELSE Slice(t, a, CHOOSE k \in keep : \A j \in keep : j <= k)

RECURSIVE Concat(_)
Concat(ss) == IF ss = <<>> THEN <<>> ELSE Head(ss) \o Concat(Tail(ss))

\* Array.prototype.join(sep)
RECURSIVE Join(_, _)
Join(ss, sep) ==
  IF ss = <<>> THEN <<>>
  ELSE IF Len(ss) = 1 THEN ss[1]
  ELSE ss[1] \o sep \o Join(Tail(ss), sep)

\* String.prototype.split("\n")
RECURSIVE SplitLines(_)
SplitLines(t) ==
  LET nl == FirstIn(t, 1, {"\n"})
  IN IF nl > Len(t) THEN <<t>>
     ELSE <<Slice(t, 1, nl - 1)>> \o SplitLines(Drop(t, nl))

NL == <<"\n">>

-----------------------------------------------------------------------------
(* Rich text runs.  A literal run is {text:{content, link}, annotations};   *)
(* the link is a sequence holding the url, empty when there is no link.     *)
(* A mention carries its variant and identifier.  Every run has the four    *)
(* annotation flags: the store fills in the ones a descriptor leaves out.   *)

TextRun(c, l, b, i, s, k) ==
  [kind |-> "text", variant |-> "none", id |-> <<>>, content |-> c, link |-> l,
   bold |-> b, italic |-> i, strikethrough |-> s, code |-> k]
Plain(c) == TextRun(c, <<>>, FALSE, FALSE, FALSE, FALSE)
\* a mention; content is the plain_text the store attaches to it
Mention(v, id) ==
  [kind |-> "mention", variant |-> v, id |-> id, content |-> id, link |-> <<>>,
   bold |-> FALSE, italic |-> FALSE, strikethrough |-> FALSE, code |-> FALSE]

MentionMd(item) ==
  <<"{", "{">> \o (IF item.variant = "page" THEN <<"p","a","g","e">>
                   ELSE <<"d","a","t","a","b","a","s","e">>)
  \o <<":">> \o item.id \o <<"}", "}">>

\* the map callback with the bold marker applied before the code marker
ItemMd_BoldInner(item) ==
  IF item.kind = "mention" /\ item.variant \in {"page", "database"}
  THEN MentionMd(item)
  ELSE IF item.content = <<>> THEN <<>>
  ELSE LET t1 == IF item.bold
                 THEN <<"*","*">> \o item.content \o <<"*","*">> ELSE item.content
           t2 == IF item.code THEN <<BTick>> \o t1 \o <<BTick>> ELSE t1
           t3 == IF item.italic THEN <<"*">> \o t2 \o <<"*">> ELSE t2
           t4 == IF item.strikethrough
                 THEN <<"~","~">> \o t3 \o <<"~","~">> ELSE t3
       IN IF item.kind = "text" /\ item.link # <<>>
          THEN <<"[">> \o t4 \o <<"]", "(">> \o item.link[1] \o <<")">>
          ELSE t4
\* markdown.ts richTextToMarkdown, one item of the map
ItemMd(item) ==
  IF item.kind = "mention" /\ item.variant \in {"page", "database"}
  THEN MentionMd(item)
  ELSE IF item.content = <<>> THEN <<>>
  ELSE LET t1 == IF item.code
                 THEN <<BTick>> \o item.content \o <<BTick>> ELSE item.content
           t2 == IF item.bold THEN <<"*","*">> \o t1 \o <<"*","*">> ELSE t1
           t3 == IF item.italic THEN <<"*">> \o t2 \o <<"*">> ELSE t2
           t4 == IF item.strikethrough
                 THEN <<"~","~">> \o t3 \o <<"~","~">> ELSE t3
       IN IF item.kind = "text" /\ item.link # <<>>
          THEN <<"[">> \o t4 \o <<"]", "(">> \o item.link[1] \o <<")">>
          ELSE t4

\* markdown.ts richTextToMarkdown
RECURSIVE richTextToMarkdown(_)
richTextToMarkdown(rt) ==
  IF rt = <<>> THEN <<>> ELSE ItemMd(Head(rt)) \o richTextToMarkdown(Tail(rt))

-----------------------------------------------------------------------------
(* parseInlineMarkdown: the alternation of the regular expression at one    *)
(* position.  A match is [ok, item, next]: the run it yields and the        *)
(* position after the match.                                                *)

NoMatch == [ok |-> FALSE, item |-> Plain(<<>>), next |-> 0]
Got(item, next) == [ok |-> TRUE, item |-> item, next |-> next]

InlineSpecial == {"[", "{", "*", BTick, "~"}

\* lazy  open (.+?) close : the shortest non-empty content with no line
\* terminator that is followed by close
LazySpan(t, p, open, close) ==
  IF ~At(t, p, open) THEN 0
  ELSE LET q == p + Len(open)
           stop == FirstIn(t, q, LineTerm)
           ends == {e \in (q + 1)..Len(t) : At(t, e, close) /\ e <= stop}
       IN IF ends = {} THEN 0 ELSE Min(ends)

\* \{\{(page|database):([^}]+)\}\}
MatchMention(t, p) ==
  LET kw == IF At(t, p + 2, <<"p","a","g","e",":">>) THEN 5
            ELSE IF At(t, p + 2, <<"d","a","t","a","b","a","s","e",":">>) THEN 9
            ELSE 0
      q == p + 2 + kw
      e == FirstIn(t, q, {"}"})
  IN IF At(t, p, <<"{","{">>) /\ kw > 0 /\ e > q /\ At(t, e, <<"}","}">>)
     THEN Got(Mention(IF kw = 5 THEN "page" ELSE "database",
                      Trim(Slice(t, q, e - 1))), e + 2)
     ELSE NoMatch

\* \[([^\]]+)\]\(([^)]+)\)
MatchLink(t, p) ==
  LET e == FirstIn(t, p + 1, {"]"})
      u == FirstIn(t, e + 2, {")"})
  IN IF At(t, p, <<"[">>) /\ e > p + 1 /\ At(t, e, <<"]","(">>)
        /\ u > e + 2 /\ u <= Len(t)
     THEN Got(TextRun(Slice(t, p + 1, e - 1), <<Slice(t, e + 2, u - 1)>>,
                      FALSE, FALSE, FALSE, FALSE), u + 1)
     ELSE NoMatch

\* \*\*(.+?)\*\*
MatchBold(t, p) ==
  LET e == LazySpan(t, p, <<"*","*">>, <<"*","*">>)
  IN IF e = 0 THEN NoMatch
     ELSE Got(TextRun(Slice(t, p + 2, e - 1), <<>>, TRUE, FALSE, FALSE, FALSE),
              e + 2)

\* \*(.+?)\*
MatchItalic(t, p) ==
  LET e == LazySpan(t, p, <<"*">>, <<"*">>)
  IN IF e = 0 THEN NoMatch
     ELSE Got(TextRun(Slice(t, p + 1, e - 1), <<>>, FALSE, TRUE, FALSE, FALSE),
              e + 1)

\* `(.+?)`
MatchCode(t, p) ==
  LET e == LazySpan(t, p, <<BTick>>, <<BTick>>)
  IN IF e = 0 THEN NoMatch
     ELSE Got(TextRun(Slice(t, p + 1, e - 1), <<>>, FALSE, FALSE, FALSE, TRUE),
              e + 1)

\* ~~(.+?)~~
MatchStrike(t, p) ==
  LET e == LazySpan(t, p, <<"~","~">>, <<"~","~">>)
  IN IF e = 0 THEN NoMatch
     ELSE Got(TextRun(Slice(t, p + 2, e - 1), <<>>, FALSE, FALSE, TRUE, FALSE),
              e + 2)

\* the last alternative without its second branch: ([^[{*`~]+)
MatchPlain_TextOnly(t, p) ==
  IF p > Len(t) \/ t[p] \in InlineSpecial THEN NoMatch
  ELSE Got(Plain(Slice(t, p, FirstIn(t, p, InlineSpecial) - 1)),
           FirstIn(t, p, InlineSpecial))
\* ([^[{*`~]+|[{*`~[]+)
MatchPlain(t, p) ==
  IF p > Len(t) THEN NoMatch
  ELSE IF t[p] \notin InlineSpecial
  THEN LET e == FirstIn(t, p, InlineSpecial)
       IN Got(Plain(Slice(t, p, e - 1)), e)
  ELSE LET e == FirstNotIn(t, p, InlineSpecial)
       IN Got(Plain(Slice(t, p, e - 1)), e)

\* the first match of a priority-ordered list of tries
FirstOk(ms) ==
  IF \E k \in 1..Len(ms) : ms[k].ok
  THEN ms[Min({k \in 1..Len(ms) : ms[k].ok})]
  ELSE ms[1]

\* the alternation, in the order the regular expression lists it
InlineMatchAt(t, p) ==
  FirstOk(<<MatchMention(t, p), MatchLink(t, p), MatchBold(t, p),
            MatchItalic(t, p), MatchCode(t, p), MatchStrike(t, p),
            MatchPlain(t, p)>>)

\* regex.exec with the g flag: the leftmost position >= p where the
\* alternation matches; positions where nothing matches are passed over.
RECURSIVE InlineScan(_, _)
ScanTake(t, p, m) ==
  IF m.ok THEN <<m.item>> \o InlineScan(t, m.next) ELSE InlineScan(t, p + 1)
InlineScan(t, p) ==
  IF p > Len(t) THEN <<>> ELSE ScanTake(t, p, InlineMatchAt(t, p))

\* if (items.length === 0 && text.length > 0) items.push({text: {content: text}})
OrWhole(t, items) == IF items = <<>> /\ Len(t) > 0 THEN <<Plain(t)>> ELSE items

\* markdown.ts parseInlineMarkdown
parseInlineMarkdown(t) == OrWhole(t, InlineScan(t, 1))

-----------------------------------------------------------------------------
(* Block descriptors, shaped as the source shapes them: a type and, under   *)
(* the type's own key, the payload.                                         *)

RichBlock(type, rt) ==
  CASE type = "paragraph" -> [type |-> type, paragraph |-> [rich_text |-> rt]]
    [] type = "heading_1" -> [type |-> type, heading_1 |-> [rich_text |-> rt]]
    [] type = "heading_2" -> [type |-> type, heading_2 |-> [rich_text |-> rt]]
    [] type = "heading_3" -> [type |-> type, heading_3 |-> [rich_text |-> rt]]
    [] type = "bulleted_list_item" ->
         [type |-> type, bulleted_list_item |-> [rich_text |-> rt]]
    [] type = "numbered_list_item" ->
         [type |-> type, numbered_list_item |-> [rich_text |-> rt]]
    [] type = "quote" -> [type |-> type, quote |-> [rich_text |-> rt]]
    [] type = "toggle" -> [type |-> type, toggle |-> [rich_text |-> rt]]
    [] type = "callout" ->
         [type |-> type, callout |-> [rich_text |-> rt, icon |-> <<>>]]
TodoBlock(rt, checked) ==
  [type |-> "to_do", to_do |-> [rich_text |-> rt, checked |-> checked]]
CodeBlock(content, language) ==
  [type |-> "code",
   code |-> [rich_text |-> <<Plain(content)>>, language |-> language]]
DividerBlock == [type |-> "divider", divider |-> <<>>]
BookmarkBlock(url, caption) ==
  [type |-> "bookmark", bookmark |-> [url |-> url, caption |-> caption]]
EmbedBlock(url) == [type |-> "embed", embed |-> [url |-> url]]
ImageBlock(url, caption) ==
  [type |-> "image",
   image |-> [type |-> "external", external |-> [url |-> url],
              caption |-> caption]]

-----------------------------------------------------------------------------
(* markdownToBlocks: the line classifier.  Each matcher is one regular      *)
(* expression of the loop body; a block match is [ok, block].               *)

NoBlock == [ok |-> FALSE, block |-> DividerBlock]
GotBlock(b) == [ok |-> TRUE, block |-> b]

Fence == <<BTick, BTick, BTick>>
PlainText == <<"p","l","a","i","n"," ","t","e","x","t">>

\* (.*) and the tail of (.+): up to the first line terminator
DotRun(t) == Slice(t, 1, FirstIn(t, 1, LineTerm) - 1)

LowerOf ==
  [c \in UpperCh |->
     CASE c = "A" -> "a" [] c = "B" -> "b" [] c = "C" -> "c" [] c = "D" -> "d"
       [] c = "E" -> "e" [] c = "F" -> "f" [] c = "G" -> "g" [] c = "H" -> "h"
       [] c = "I" -> "i" [] c = "J" -> "j" [] c = "K" -> "k" [] c = "L" -> "l"
       [] c = "M" -> "m" [] c = "N" -> "n" [] c = "O" -> "o" [] c = "P" -> "p"
       [] c = "Q" -> "q" [] c = "R" -> "r" [] c = "S" -> "s" [] c = "T" -> "t"
       [] c = "U" -> "u" [] c = "V" -> "v" [] c = "W" -> "w" [] c = "X" -> "x"
       [] c = "Y" -> "y" [] c = "Z" -> "z"]
Lower(c) == IF c \in UpperCh THEN LowerOf[c] ELSE c
\* String.prototype.toLowerCase()
ToLower(t) == [k \in 1..Len(t) |-> Lower(t[k])]

\* what map[key] finds on the object's prototype chain, a value that is no
\* string: the key constructor finds the Object function
InheritedKeys == {<<"c","o","n","s","t","r","u","c","t","o","r">>}
NotAString == <<"[function]">>

\* markdown.ts mapLanguage
mapLanguage(lang) ==
  LET l == ToLower(lang)
  IN CASE l = <<"j","s">> -> <<"j","a","v","a","s","c","r","i","p","t">>
       [] l = <<"t","s">> -> <<"t","y","p","e","s","c","r","i","p","t">>
       [] l = <<"p","y">> -> <<"p","y","t","h","o","n">>
       [] l = <<"r","b">> -> <<"r","u","b","y">>
       [] l = <<"s","h">> -> <<"b","a","s","h">>
       [] l = <<"y","m","l">> -> <<"y","a","m","l">>
       [] l = <<"m","d">> -> <<"m","a","r","k","d","o","w","n">>
       [] l = <<>> -> PlainText
       [] l \in InheritedKeys -> NotAString
       [] OTHER -> l

\* line.trim() === ""
IsBlank(line) == Trim(line) = <<>>
\* line.trim().startsWith(fence)
IsFence(line) == At(Trim(line), 1, Fence)

\* line.trim().match(/^```(\w*)/)?.[1] || "plain text"
FenceLanguage(line) ==
  LET t == Trim(line)
      tag == Slice(t, 4, FirstNotIn(t, 4, WordCh) - 1)
  IN IF tag = <<>> THEN PlainText ELSE tag

\* the inner while of the code branch stops at the first blank line
FenceClose_StopAtBlank(lines, i) ==
  LET hits == {j \in (i + 1)..Len(lines) : IsFence(lines[j]) \/ IsBlank(lines[j])}
  IN IF hits = {} THEN Len(lines) + 1 ELSE Min(hits)

\* the inner while of the code branch: the index of the closing fence after
\* line i, or one past the last line
FenceClose(lines, i) ==
  LET hits == {j \in (i + 1)..Len(lines) : IsFence(lines[j])}
  IN IF hits = {} THEN Len(lines) + 1 ELSE Min(hits)

\* /^(#{1,3})\s+(.+)/
MatchHeading(line) ==
  LET h == FirstNotIn(line, 1, {"#"}) - 1
      w == FirstNotIn(line, h + 1, WS)
      rest == DotRun(Drop(line, w - 1))
      \* nothing after the white space: \s+ gives back its last character
      back == DotRun(Drop(line, w - 2))
      text == IF rest # <<>> THEN rest
              ELSE IF w - (h + 1) >= 2 THEN back ELSE <<>>
      type == IF h = 1 THEN "heading_1" ELSE IF h = 2 THEN "heading_2"
              ELSE "heading_3"
  IN IF h \in 1..3 /\ w > h + 1 /\ text # <<>>
     THEN GotBlock(RichBlock(type, parseInlineMarkdown(text)))
     ELSE NoBlock

\* /^[-*]\s+\[([ xX])\]\s+(.*)/
MatchTodo(line) ==
  LET w == FirstNotIn(line, 2, WS)
      v == FirstNotIn(line, w + 3, WS)
  IN IF /\ Len(line) >= 1 /\ line[1] \in {"-", "*"}
        /\ w > 2 /\ w + 2 <= Len(line)
        /\ line[w] = "[" /\ line[w + 1] \in {" ", "x", "X"} /\ line[w + 2] = "]"
        /\ v > w + 3
     THEN GotBlock(TodoBlock(parseInlineMarkdown(DotRun(Drop(line, v - 1))),
                             Lower(line[w + 1]) = "x"))
     ELSE NoBlock

\* /^[-*]\s+(.*)/
MatchBullet(line) ==
  LET w == FirstNotIn(line, 2, WS)
  IN IF Len(line) >= 1 /\ line[1] \in {"-", "*"} /\ w > 2
     THEN GotBlock(RichBlock("bulleted_list_item",
                             parseInlineMarkdown(DotRun(Drop(line, w - 1)))))
     ELSE NoBlock

\* /^\d+\.\s+(.*)/
MatchNumbered(line) ==
  LET d == FirstNotIn(line, 1, Digit)
      w == FirstNotIn(line, d + 1, WS)
  IN IF d > 1 /\ d <= Len(line) /\ line[d] = "." /\ w > d + 1
     THEN GotBlock(RichBlock("numbered_list_item",
                             parseInlineMarkdown(DotRun(Drop(line, w - 1)))))
     ELSE NoBlock

\* /^>\s*(.*)/
MatchQuote(line) ==
  LET w == FirstNotIn(line, 2, WS)
  IN IF Len(line) >= 1 /\ line[1] = ">"
     THEN GotBlock(RichBlock("quote",
                             parseInlineMarkdown(DotRun(Drop(line, w - 1)))))
     ELSE NoBlock

\* /^[-*_]{3,}\s*$/.test(line.trim())
MatchDivider(line) ==
  LET t == Trim(line)
      e == FirstNotIn(t, 1, {"-", "*", "_"})
  IN IF e - 1 >= 3 /\ FirstNotIn(t, e, WS) > Len(t)
     THEN GotBlock(DividerBlock) ELSE NoBlock

BookmarkOpen == <<"{","{","b","o","o","k","m","a","r","k",":">>
EmbedOpen == <<"{","{","e","m","b","e","d",":">>

\* line.trim().match(/^\{\{bookmark:([^|}]+)(?:\|([^}]+))?\}\}$/)
MatchBookmark(line) ==
  LET t == Trim(line)
      q == Len(BookmarkOpen) + 1
      e == FirstIn(t, q, {"|", "}"})
      c == FirstIn(t, e + 1, {"}"})
      url == Trim(Slice(t, q, e - 1))
  IN IF ~(At(t, 1, BookmarkOpen) /\ e > q /\ e <= Len(t)) THEN NoBlock
     ELSE IF t[e] = "|"
     THEN IF c > e + 1 /\ At(t, c, <<"}","}">>) /\ c + 1 = Len(t)
          THEN GotBlock(BookmarkBlock(url, <<Plain(Trim(Slice(t, e + 1, c - 1)))>>))
          ELSE NoBlock
     ELSE IF At(t, e, <<"}","}">>) /\ e + 1 = Len(t)
          THEN GotBlock(BookmarkBlock(url, <<>>))
          ELSE NoBlock

\* line.trim().match(/^\{\{embed:([^}]+)\}\}$/)
MatchEmbed(line) ==
  LET t == Trim(line)
      q == Len(EmbedOpen) + 1
      e == FirstIn(t, q, {"}"})
  IN IF At(t, 1, EmbedOpen) /\ e > q /\ At(t, e, <<"}","}">>) /\ e + 1 = Len(t)
     THEN GotBlock(EmbedBlock(Trim(Slice(t, q, e - 1))))
     ELSE NoBlock

\* /^!\[([^\]]*)\]\(([^)]+)\)/
MatchImage(line) ==
  LET e == FirstIn(line, 3, {"]"})
      u == FirstIn(line, e + 2, {")"})
      alt == Slice(line, 3, e - 1)
  IN IF At(line, 1, <<"!","[">>) /\ At(line, e, <<"]","(">>)
        /\ u > e + 2 /\ u <= Len(line)
     THEN GotBlock(ImageBlock(Slice(line, e + 2, u - 1),
                              IF alt # <<>> THEN <<Plain(alt)>> ELSE <<>>))
     ELSE NoBlock

Try(kind, m) == [kind |-> kind, ok |-> m.ok, block |-> m.block]

\* the bulleted item is tried before the checklist item
LineTries_BulletFirst(line) ==
  <<Try("heading", MatchHeading(line)), Try("bullet", MatchBullet(line)),
    Try("todo", MatchTodo(line)), Try("numbered", MatchNumbered(line)),
    Try("quote", MatchQuote(line)), Try("divider", MatchDivider(line)),
    Try("bookmark", MatchBookmark(line)), Try("embed", MatchEmbed(line)),
    Try("image", MatchImage(line)),
    Try("paragraph", GotBlock(RichBlock("paragraph", parseInlineMarkdown(line))))>>

\* the branches of the loop body after the blank and the fence test, in the
\* order the source tries them; the paragraph is the fall-through
LineTries(line) ==
  <<Try("heading", MatchHeading(line)), Try("todo", MatchTodo(line)),
    Try("bullet", MatchBullet(line)), Try("numbered", MatchNumbered(line)),
    Try("quote", MatchQuote(line)), Try("divider", MatchDivider(line)),
    Try("bookmark", MatchBookmark(line)), Try("embed", MatchEmbed(line)),
    Try("image", MatchImage(line)),
    Try("paragraph", GotBlock(RichBlock("paragraph", parseInlineMarkdown(line))))>>

\* the branch taken for a line that is neither blank nor a fence
ClassifyLine(line) == FirstOk(LineTries(line))

LineStep_Twice(c, i) ==
  [kind |-> c.kind, out |-> <<c.block, c.block>>, next |-> i + 1]
LineStep(c, i) == [kind |-> c.kind, out |-> <<c.block>>, next |-> i + 1]

\* the code branch: the lines up to the closing fence are the content
CodeStep(lines, i, close) ==
  [kind |-> "code",
   out |-> <<CodeBlock(Join(Slice(lines, i + 1, close - 1), NL),
                       mapLanguage(FenceLanguage(lines[i])))>>,
   next |-> close + 1]

\* one iteration of the while loop of markdownToBlocks at line i: the branch
\* taken, the block pushed, the cursor afterwards
DecodeStep(lines, i) ==
  IF IsBlank(lines[i]) THEN [kind |-> "blank", out |-> <<>>, next |-> i + 1]
  ELSE IF IsFence(lines[i]) THEN CodeStep(lines, i, FenceClose(lines, i))
  ELSE LineStep(ClassifyLine(lines[i]), i)

RECURSIVE DecodeFrom(_, _)
DecodeRest(lines, s) == s.out \o DecodeFrom(lines, s.next)
DecodeFrom(lines, i) ==
  IF i > Len(lines) THEN <<>> ELSE DecodeRest(lines, DecodeStep(lines, i))

\* markdown.ts markdownToBlocks
markdownToBlocks(markdown) == DecodeFrom(SplitLines(markdown), 1)

-----------------------------------------------------------------------------
(* blockToMarkdown / blocksToMarkdown.  A block of the store carries, next  *)
(* to its descriptor, an id and has_children; the provider K maps a block   *)
(* id to the ordered children collectAllBlocks returns for it.  An id or a  *)
(* type name interpolated into the text is one symbol of the text.          *)

\* the store's block for a descriptor appended to a page: no children yet
Stored(b, id) == b @@ [id |-> id, has_children |-> FALSE]
StoredAll(bs) == [k \in 1..Len(bs) |-> Stored(bs[k], k)]

IndentUnit == <<" ", " ">>
\* "  ".repeat(indent)
RECURSIVE Prefix(_)
Prefix(indent) == IF indent <= 0 THEN <<>> ELSE IndentUnit \o Prefix(indent - 1)

\* line.split("\n").map((l) => prefix + l).join("\n")
PrefixLines(line, prefix) ==
  LET ls == SplitLines(line)
  IN Join([k \in 1..Len(ls) |-> prefix \o ls[k]], NL)

DetailsOpen == <<"<","d","e","t","a","i","l","s",">">>
DetailsClose == <<"<","/","d","e","t","a","i","l","s",">">>
SummaryOpen == <<"<","s","u","m","m","a","r","y",">">>
SummaryClose == <<"<","/","s","u","m","m","a","r","y",">">>
CommentOpen == <<"<","!","-","-"," ">>
CommentClose == <<" ","-","-",">">>
UnsupportedText ==
  <<"u","n","s","u","p","p","o","r","t","e","d"," ","b","l","o","c","k"," ",
    "t","y","p","e",":"," ">>
Dashes == <<"-","-","-">>

FileUrl(f) == IF f.type = "external" THEN f.external.url ELSE f.file.url

\* case "toggle"
ToggleLine(b, prefix) ==
  DetailsOpen \o NL \o prefix \o SummaryOpen
  \o richTextToMarkdown(b.toggle.rich_text) \o SummaryClose

\* the caption segment emitted even when the caption is empty
BookmarkLine_AlwaysBar(b) ==
  LET caption == IF Len(b.bookmark.caption) > 0
                 THEN richTextToMarkdown(b.bookmark.caption) ELSE <<>>
  IN BookmarkOpen \o b.bookmark.url \o <<"|">> \o caption \o <<"}","}">>

\* case "bookmark"
BookmarkLine(b) ==
  LET caption == IF Len(b.bookmark.caption) > 0
                 THEN richTextToMarkdown(b.bookmark.caption) ELSE <<>>
  IN IF caption # <<>>
     THEN BookmarkOpen \o b.bookmark.url \o <<"|">> \o caption \o <<"}","}">>
     ELSE BookmarkOpen \o b.bookmark.url \o <<"}","}">>

\* the switch of blockToMarkdown, for the types that fetch nothing
OwnLine(b, prefix) ==
  LET type == b.type
  IN CASE type = "paragraph" -> richTextToMarkdown(b.paragraph.rich_text)
       [] type = "heading_1" ->
            <<"#"," ">> \o richTextToMarkdown(b.heading_1.rich_text)
       [] type = "heading_2" ->
            <<"#","#"," ">> \o richTextToMarkdown(b.heading_2.rich_text)
       [] type = "heading_3" ->
            <<"#","#","#"," ">> \o richTextToMarkdown(b.heading_3.rich_text)
       [] type = "bulleted_list_item" ->
            <<"-"," ">> \o richTextToMarkdown(b.bulleted_list_item.rich_text)
       [] type = "numbered_list_item" ->
            <<"1","."," ">> \o richTextToMarkdown(b.numbered_list_item.rich_text)
       [] type = "to_do" ->
            <<"-"," ","[">> \o (IF b.to_do.checked THEN <<"x">> ELSE <<" ">>)
            \o <<"]"," ">> \o richTextToMarkdown(b.to_do.rich_text)
       [] type = "toggle" -> ToggleLine(b, prefix)
       [] type = "code" ->
            Fence \o b.code.language \o NL
            \o richTextToMarkdown(b.code.rich_text) \o NL \o Fence
       [] type = "quote" -> <<">"," ">> \o richTextToMarkdown(b.quote.rich_text)
       [] type = "callout" ->
            <<">"," ">>
            \o (IF b.callout.icon # <<>> THEN b.callout.icon \o <<" ">> ELSE <<>>)
            \o richTextToMarkdown(b.callout.rich_text)
       [] type = "divider" -> Dashes
       [] type = "image" ->
            <<"!","[">>
            \o (IF "caption" \in DOMAIN b.image
                THEN richTextToMarkdown(b.image.caption)
                ELSE <<"i","m","a","g","e">>)
            \o <<"]","(">> \o FileUrl(b.image) \o <<")">>
       [] type = "bookmark" -> BookmarkLine(b)
       [] type = "child_page" ->
            <<"*","*","[","C","h","i","l","d"," ","P","a","g","e",":"," ">>
            \o b.child_page.title \o <<"]","*","*"," ","(","i","d",":"," ">>
            \o <<b.id>> \o <<")">>
       [] type = "child_database" ->
            <<"*","*","[","C","h","i","l","d"," ","D","a","t","a","b","a","s","e",":"," ">>
            \o b.child_database.title \o <<"]","*","*"," ","(","i","d",":"," ">>
            \o <<b.id>> \o <<")">>
       [] type = "embed" -> EmbedOpen \o b.embed.url \o <<"}","}">>
       [] type = "video" ->
            <<"[","V","i","d","e","o","]","(">> \o FileUrl(b.video) \o <<")">>
       [] type = "file" ->
            <<"[">>
            \o (IF "caption" \in DOMAIN b.file
                THEN richTextToMarkdown(b.file.caption) ELSE <<"F","i","l","e">>)
            \o <<"]","(">> \o FileUrl(b.file) \o <<")">>
       [] type = "pdf" ->
            <<"[","P","D","F","]","(">> \o FileUrl(b.pdf) \o <<")">>
       [] type = "equation" ->
            <<"$","$">> \o b.equation.expression \o <<"$","$">>
       [] type \in {"table_of_contents", "breadcrumb"} ->
            CommentOpen \o <<type>> \o CommentClose
       [] OTHER -> CommentOpen \o UnsupportedText \o <<type>> \o CommentClose

\* one row of a table: `| ${cells.join(" | ")} |`
RowLine(cells) ==
  <<"|"," ">>
  \o Join([k \in 1..Len(cells) |-> richTextToMarkdown(cells[k])], <<" ","|"," ">>)
  \o <<" ","|">>
SeparatorLine(cells) ==
  <<"|"," ">> \o Join([k \in 1..Len(cells) |-> Dashes], <<" ","|"," ">>)
  \o <<" ","|">>

\* case "table": the lines pushed for rows[i..], the separator after the
\* row at index 0 (the first child)
RECURSIVE TableLines(_, _)
TableLines(rows, i) ==
  IF i > Len(rows) THEN <<>>
  ELSE IF rows[i].type # "table_row" THEN TableLines(rows, i + 1)
  ELSE <<RowLine(rows[i].table_row.cells)>>
       \o (IF i = 1 THEN <<SeparatorLine(rows[i].table_row.cells)>> ELSE <<>>)
       \o TableLines(rows, i + 1)
TableLine(rows) == Join(TableLines(rows, 1), NL)

\* the condition with a toggle fetched whatever has_children says
FetchesChildren_Toggle(b) ==
  (b.has_children \/ b.type = "toggle")
    /\ b.type \notin {"table", "column_list", "column"}
\* the condition of the children fetch after the switch
FetchesChildren(b) ==
  b.has_children /\ b.type \notin {"table", "column_list", "column"}

\* the tail of blockToMarkdown: prefix the line, attach the children
Assemble(b, line, children, prefix) ==
  LET prefixed == PrefixLines(line, prefix)
  IN IF b.type = "toggle" /\ children # <<>>
     THEN prefixed \o NL \o children \o NL \o prefix \o DetailsClose
     ELSE IF children # <<>> THEN prefixed \o NL \o children
     ELSE prefixed

\* blockToMarkdown and blocksToMarkdown run to completion against a
\* provider K that answers every fetch
RECURSIVE blockToMarkdown(_, _, _), blocksToMarkdown(_, _, _), ColumnParts(_, _, _)
blockToMarkdown(K, b, indent) ==
  LET prefix == Prefix(indent)
      line == CASE b.type = "table" -> TableLine(K[b.id])
                [] b.type = "column_list" ->
                     Join(ColumnParts(K, K[b.id], indent), NL \o NL)
                [] OTHER -> OwnLine(b, prefix)
      children == IF FetchesChildren(b)
                  THEN blocksToMarkdown(K, K[b.id], indent + 1) ELSE <<>>
  IN Assemble(b, line, children, prefix)

blocksToMarkdown(K, blocks, indent) ==
  Join([k \in 1..Len(blocks) |-> blockToMarkdown(K, blocks[k], indent)], NL)

\* case "column_list": one part per column
ColumnParts(K, columns, indent) ==
  IF columns = <<>> THEN <<>>
  ELSE (IF Head(columns).type = "column"
        THEN <<blocksToMarkdown(K, K[Head(columns).id], indent)>> ELSE <<>>)
       \o ColumnParts(K, Tail(columns), indent)

\* a provider with nothing in it: every fetch returns no block
NoKids == [id \in {} |-> <<>>]

-----------------------------------------------------------------------------
(* The encode as it runs: blockToMarkdown / blocksToMarkdown suspended at   *)
(* each collectAllBlocks.  An invocation is a call stack of frames; a frame *)
(* holds the locals of one call.  mode says what the invocation does next:  *)
(* "call" runs the top frame, "ret" hands val to the top frame, "fetch"     *)
(* waits for collectAllBlocks(val), "done" has returned val to the caller.  *)

\* blocksToMarkdown(blocks, indent): the loop index and the lines array
BlocksFrame(blocks, indent) ==
  [fn |-> "blocks", blocks |-> blocks, indent |-> indent, k |-> 1,
   lines |-> <<>>]

\* blockToMarkdown(block, indent): line, and for a column_list the columns,
\* the loop index and parts; at is the await the call is suspended at
BlockFrame(block, indent) ==
  [fn |-> "block", block |-> block, indent |-> indent, at |-> "start",
   line |-> <<>>, cols |-> <<>>, ci |-> 1, parts |-> <<>>]

Top(c) == c.stack[Len(c.stack)]
Pop(c) == SubSeq(c.stack, 1, Len(c.stack) - 1)

\* return v to the caller of the top frame
Return(c, v) ==
  [stack |-> Pop(c), mode |-> IF Len(c.stack) = 1 THEN "done" ELSE "ret",
   val |-> v]
\* go on in the top frame, its locals now f
SetTop(c, f) == [stack |-> Pop(c) \o <<f>>, mode |-> "call", val |-> <<>>]
\* call g from the top frame
Push(c, f, g) == [stack |-> Pop(c) \o <<f, g>>, mode |-> "call", val |-> <<>>]
\* await collectAllBlocks(id) in the top frame
Await(c, f, id) == [stack |-> Pop(c) \o <<f>>, mode |-> "fetch", val |-> id]

\* the for loop of blocksToMarkdown: the next block, or return lines.join
BlocksCall(c, f) ==
  IF f.k > Len(f.blocks) THEN Return(c, Join(f.lines, NL))
  ELSE Push(c, f, BlockFrame(f.blocks[f.k], f.indent))
\* lines.unshift(md) in the place of lines.push(md)
BlocksRet_Front(c, f) ==
  SetTop(c, [f EXCEPT !.lines = <<c.val>> \o @, !.k = @ + 1])
\* lines.push(md)
BlocksRet(c, f) ==
  SetTop(c, [f EXCEPT !.lines = Append(@, c.val), !.k = @ + 1])

\* the return statements of blockToMarkdown
Finish(c, f, line, children) ==
  Return(c, Assemble(f.block, line, children, Prefix(f.indent)))
\* the children fetched with the line not kept
AfterSwitch_LineLater(c, f, line) ==
  IF FetchesChildren(f.block)
  THEN Await(c, [f EXCEPT !.at = "kids"], f.block.id)
  ELSE Finish(c, f, line, <<>>)
\* after the switch: fetch the children, or return
AfterSwitch(c, f, line) ==
  IF FetchesChildren(f.block)
  THEN Await(c, [f EXCEPT !.at = "kids", !.line = line], f.block.id)
  ELSE Finish(c, f, line, <<>>)
\* the switch
BlockStart(c, f) ==
  CASE f.block.type = "table" -> Await(c, [f EXCEPT !.at = "rows"], f.block.id)
    [] f.block.type = "column_list" ->
         Await(c, [f EXCEPT !.at = "columns"], f.block.id)
    [] OTHER -> AfterSwitch(c, f, OwnLine(f.block, Prefix(f.indent)))
\* the parts joined by a line break alone
ColumnScan_NoBlank(c, f) ==
  IF f.ci > Len(f.cols) THEN AfterSwitch(c, f, Join(f.parts, NL))
  ELSE IF f.cols[f.ci].type = "column"
       THEN Await(c, [f EXCEPT !.at = "colkids"], f.cols[f.ci].id)
       ELSE SetTop(c, [f EXCEPT !.ci = @ + 1])
\* case "column_list": the for loop over the columns
ColumnScan(c, f) ==
  IF f.ci > Len(f.cols) THEN AfterSwitch(c, f, Join(f.parts, NL \o NL))
  ELSE IF f.cols[f.ci].type = "column"
       THEN Await(c, [f EXCEPT !.at = "colkids"], f.cols[f.ci].id)
       ELSE SetTop(c, [f EXCEPT !.ci = @ + 1])
BlockCall(c, f) ==
  IF f.at = "start" THEN BlockStart(c, f) ELSE ColumnScan(c, f)
\* an await of blockToMarkdown resumes with c.val
BlockRet(c, f) ==
  CASE f.at = "rows" -> AfterSwitch(c, f, TableLine(c.val))
    [] f.at = "columns" ->
         SetTop(c, [f EXCEPT !.at = "colscan", !.cols = c.val, !.ci = 1])
    [] f.at = "colkids" ->
         Push(c, [f EXCEPT !.at = "colmd"], BlocksFrame(c.val, f.indent))
    [] f.at = "colmd" ->
         SetTop(c, [f EXCEPT !.at = "colscan", !.parts = Append(@, c.val),
                             !.ci = @ + 1])
    [] f.at = "kids" ->
         Push(c, [f EXCEPT !.at = "kidsmd"], BlocksFrame(c.val, f.indent + 1))
    [] f.at = "kidsmd" -> Finish(c, f, f.line, c.val)

StepOn(c, f) ==
  IF c.mode = "call"
  THEN (IF f.fn = "blocks" THEN BlocksCall(c, f) ELSE BlockCall(c, f))
  ELSE (IF f.fn = "blocks" THEN BlocksRet(c, f) ELSE BlockRet(c, f))

\* run to the next collectAllBlocks or to the end
RECURSIVE Run(_)
Run(c) == IF c.mode \in {"fetch", "done"} THEN c ELSE Run(StepOn(c, Top(c)))

\* blocksToMarkdown(blocks) called by a handler
Enter(blocks) ==
  Run([stack |-> <<BlocksFrame(blocks, 0)>>, mode |-> "call", val |-> <<>>])
\* collectAllBlocks resolves with blocks
Resume(c, blocks) == Run([c EXCEPT !.mode = "ret", !.val = blocks])
\* collectAllBlocks rejects: no frame catches, the rejection reaches the
\* caller of blocksToMarkdown
Reject_AsNoChildren(c, err) == Resume(c, <<>>)
\* the rejected fetch awaited again
Reject_Retry(c, err) == c
Reject(c, err) == [stack |-> <<>>, mode |-> "threw", val |-> err]
\* no encode running
Idle == [stack |-> <<>>, mode |-> "idle", val |-> <<>>]

-----------------------------------------------------------------------------
(* Rate limiter (notion-client.ts).  Time is counted in units of            *)
(* 1 / TOKENS_PER_SEC seconds, so elapsed * TOKENS_PER_SEC is the number of *)
(* units elapsed and waitMs is (1 - tokens) units.  since is               *)
(* Date.now() - lastRefill, kept up to MAX_TOKENS: refillTokens computes    *)
(* the same value for every longer time.                                    *)

MAX_TOKENS == 3

refillTokens_NoCap(L) == [L EXCEPT !.tokens = @ + L.since, !.since = 0]
\* refillTokens()
refillTokens(L) ==
  [L EXCEPT !.tokens = Min({MAX_TOKENS, @ + L.since}), !.since = 0]

\* the while loop of drainQueue, run until it sleeps or the queue is empty;
\* out lists the calls whose promise was resolved
RECURSIVE DrainLoop(_, _)
DrainTurn(R, out) ==
  IF R.tokens >= 1
  THEN DrainLoop([R EXCEPT !.tokens = @ - 1, !.queue = Tail(@)],
                 Append(out, Head(R.queue)))
  ELSE [lim |-> [R EXCEPT !.timer = 1 - R.tokens], out |-> out]
DrainLoop(L, out) ==
  IF L.queue = <<>> THEN [lim |-> [L EXCEPT !.draining = FALSE], out |-> out]
  ELSE DrainTurn(refillTokens(L), out)

\* drainQueue()
drainQueue(L) ==
  IF L.draining THEN [lim |-> L, out |-> <<>>]
  ELSE DrainLoop([L EXCEPT !.draining = TRUE], <<>>)

\* the token taken without the test tokens >= 1
AcquireTurn_NoCheck(R, c) ==
  [lim |-> [R EXCEPT !.tokens = @ - 1], out |-> <<c>>]
\* acquireToken() called for the call c
AcquireTurn(R, c) ==
  IF R.tokens >= 1 THEN [lim |-> [R EXCEPT !.tokens = @ - 1], out |-> <<c>>]
  ELSE drainQueue([R EXCEPT !.queue = Append(@, c)])
acquireToken(L, c) == AcquireTurn(refillTokens(L), c)

\* fn() is invoked for the calls whose token was taken; a children.list
\* request is recorded
IssueOne(W, c) ==
  [W EXCEPT !.calls[c].st = "inflight", !.load = @ + 1,
            !.log = IF c[2] = "list" THEN Append(@, <<c[1], W.calls[c].arg>>)
                    ELSE @]
RECURSIVE Issue(_, _)
Issue(W, out) ==
  IF out = <<>> THEN W ELSE Issue(IssueOne(W, Head(out)), Tail(out))

\* apiCall(fn) for the call c with the argument arg
ApiAdmit(W, a) == Issue([W EXCEPT !.lim = a.lim], a.out)
apiCall(W, c, arg) ==
  ApiAdmit([W EXCEPT !.calls[c] = [st |-> "queued", arg |-> arg]],
           acquireToken(W.lim, c))
\* the promise of the call c has settled
Settled(W, c) == [W EXCEPT !.calls[c] = [st |-> "none", arg |-> ""]]

-----------------------------------------------------------------------------
(* The block store the provider answers from.  Two invocations run over the *)
(* pages A, B, C; one invocation alone also over D (a block of a type with  *)
(* no rendering that has children: a code block, a table, a column list)    *)
(* and E (a table and a column list whose first child is a paragraph) and   *)
(* F (a column list of two columns under a list item).                      *)
(* Every block's text is a capital letter of its own.                       *)

Para(id, c) ==
  [type |-> "paragraph", paragraph |-> [rich_text |-> <<Plain(c)>>],
   id |-> id, has_children |-> FALSE]
Bullet(id, c, hc) ==
  [type |-> "bulleted_list_item",
   bulleted_list_item |-> [rich_text |-> <<Plain(c)>>],
   id |-> id, has_children |-> hc]
Toggle(id, c, hc) ==
  [type |-> "toggle", toggle |-> [rich_text |-> <<Plain(c)>>],
   id |-> id, has_children |-> hc]
Table(id) == [type |-> "table", id |-> id, has_children |-> TRUE]
Row(id, cells) ==
  [type |-> "table_row", table_row |-> [cells |-> cells],
   id |-> id, has_children |-> FALSE]
ColumnList(id) == [type |-> "column_list", id |-> id, has_children |-> TRUE]
Column(id) == [type |-> "column", id |-> id, has_children |-> TRUE]
Other(id, type, hc) == [type |-> type, id |-> id, has_children |-> hc]

Code(id, c, language) ==
  [type |-> "code", code |-> [rich_text |-> <<Plain(c)>>, language |-> language],
   id |-> id, has_children |-> FALSE]

Pages == {"A", "B", "C"}
WalkPages == Pages \cup {"D", "E", "F"}
BlockIds ==
  {"t1", "a1", "a2", "b1", "t2", "b2", "t3", "tb", "r1", "r2", "cl", "c1",
   "c2", "l1", "l2", "u1", "u2", "k1", "tb2", "r4", "r5", "cl2", "c3", "l3",
   "tx", "n1", "r3", "cx", "n2", "c4", "l4", "f1", "cl3", "c6", "c7", "l5",
   "l6", "l7"}

\* blocks.children.list(block_id): every block has fewer than 100 children,
\* so next_cursor is null and the loop of collectAllBlocks runs once
Children(id) ==
  CASE id = "A" -> <<Toggle("t1", <<"S">>, TRUE)>>
    [] id = "t1" -> <<Para("a1", <<"G">>), Para("a2", <<"H">>)>>
    [] id = "B" -> <<Bullet("b1", <<"L">>, TRUE), Toggle("t3", <<"E">>, FALSE)>>
    [] id = "b1" -> <<Toggle("t2", <<"N">>, TRUE)>>
    [] id = "t2" -> <<Para("b2", <<"J">>)>>
    [] id = "C" -> <<Table("tb"), ColumnList("cl"), Other("u1", "audio", FALSE)>>
    [] id = "tb" -> <<Row("r1", <<<<Plain(<<"P">>)>>, <<Plain(<<"Q">>)>>>>),
                      Row("r2", <<<<Plain(<<"R">>)>>, <<Plain(<<"T">>)>>>>)>>
    [] id = "cl" -> <<Column("c1"), Column("c2")>>
    [] id = "c1" -> <<Para("l1", <<"U">>)>>
    [] id = "c2" -> <<Para("l2", <<"I">>)>>
    [] id = "D" -> <<Other("u2", "synced_block", TRUE)>>
    [] id = "u2" -> <<Code("k1", <<"V", "\n", "W">>, "python"), Table("tb2"),
                      ColumnList("cl2")>>
    [] id = "tb2" -> <<Row("r4", <<<<Plain(<<"M">>)>>>>),
                       Row("r5", <<<<Plain(<<"O">>)>>>>)>>
    [] id = "cl2" -> <<Column("c3")>>
    [] id = "c3" -> <<Para("l3", <<"K">>)>>
    [] id = "E" -> <<Table("tx"), ColumnList("cx")>>
    [] id = "tx" -> <<Para("n1", <<"Z">>), Row("r3", <<<<Plain(<<"F">>)>>>>)>>
    [] id = "cx" -> <<Para("n2", <<"Y">>), Column("c4")>>
    [] id = "c4" -> <<Para("l4", <<"X">>)>>
    [] id = "F" -> <<Bullet("f1", <<"A">>, TRUE)>>
    [] id = "f1" -> <<ColumnList("cl3")>>
    [] id = "cl3" -> <<Column("c6"), Column("c7")>>
    [] id = "c6" -> <<Para("l5", <<"B">>), Para("l6", <<"C">>)>>
    [] id = "c7" -> <<Para("l7", <<"D">>)>>
    [] OTHER -> <<>>
Store == [id \in WalkPages \cup BlockIds |-> Children(id)]

\* pages.retrieve(page_id): a full page whose only property is the title
PageObject(id) ==
  [id |-> id, title |-> <<"T">>, last_edited_time |-> "time"]

-----------------------------------------------------------------------------
(* replace_page_content: the top-level blocks of the page on the server,    *)
(* and the locals of the handler.                                           *)

DELETE_BATCH_SIZE == 10
INSERT_BATCH_SIZE == 50

\* a block of the page: one that was there before the call (origin "old",
\* the n-th of the page) or the n-th block of newBlocks as appended
PageBlock(origin, n, block) == [origin |-> origin, n |-> n, block |-> block]
OldBlock(n) == PageBlock("old", n, RichBlock("paragraph", <<Plain(<<"o">>)>>))

\* the calls replace_page_content makes through apiCall: children.list,
\* children.append, and one blocks.delete per block of the batch
ReplaceCallIds ==
  {<<0, "list">>, <<0, "append">>}
  \cup {<<j, "delete">> : j \in 1..DELETE_BATCH_SIZE}

\* the invocations of get_page, the calls each makes through apiCall
Procs == {1, 2}
CallKinds == {"meta", "list"}
\* the calls update_block makes through apiCall
UpdateCallIds == {<<0, "retrieve">>, <<0, "update">>}
\* callers of apiCall taken alone, one more than a burst admits: each has at
\* most one call under way
NumClients == MAX_TOKENS + 1
MaxSent == 6
Clients == 1..NumClients
ClientCalls == {<<c, "call">> : c \in Clients}
CallIds ==
  {<<p, k>> : p \in Procs, k \in CallKinds} \cup ReplaceCallIds
  \cup ClientCalls \cup UpdateCallIds
Errors == {"E"}

NoCall == [st |-> "none", arg |-> ""]
NoResult == [isError |-> FALSE, text |-> <<>>]

\* the module as loaded: a full bucket, no call, no invocation
LimIdle ==
  /\ tokens = MAX_TOKENS /\ sinceRefill = 0 /\ queue = <<>>
  /\ draining = FALSE /\ timer = -1
  /\ calls = [c \in CallIds |-> NoCall]
  /\ fetchLog = <<>> /\ windowLoad = 0
CliIdle == sent = 0
ToolOff == bd = [phase |-> "off"] /\ ub = [phase |-> "off"]
EncIdle ==
  /\ hPhase = [p \in Procs |-> "idle"]
  /\ hPage = [p \in Procs |-> ""]
  /\ hMeta = [p \in Procs |-> FALSE]
  /\ cfg = [p \in Procs |-> Idle]
  /\ result = [p \in Procs |-> NoResult]
  /\ failed = [p \in Procs |-> {}]
  /\ actor = 0
\* no replace_page_content called, an empty page
RepIdle ==
  /\ rPhase = "off" /\ rContent = <<>> /\ rPage = <<>> /\ existing = <<>>
  /\ rI = 0 /\ settled = <<>> /\ deletedCount = 0 /\ deleteFailed = <<>>
  /\ newBlocks = <<>> /\ rJ = 0 /\ createdCount = 0 /\ rResult = NoResult

-----------------------------------------------------------------------------
(* Span codec: a rich text sequence is encoded and the text decoded, or a   *)
(* text is decoded as it stands.                                            *)

MaxRuns == 2
MaxSpanTok == 3

Bools == {FALSE, TRUE}

SpanContents ==
  {<<"a">>, <<"a", " ", "b">>, <<"a", "*">>, <<"*">>, <<"a", "*", "*", "b">>}

\* one run with any annotation set and any content
SpanRuns1 ==
  {TextRun(c, l, b, i, s, k) :
     c \in SpanContents, l \in {<<>>, <<<<"u">>>>},
     b \in Bools, i \in Bools, s \in Bools, k \in Bools}
  \cup {Mention("page", <<"p">>), Mention("database", <<"d">>),
        Mention("user", <<"n">>)}

\* the runs longer sequences are made of
SpanRunsN ==
  {Plain(<<"a">>), Plain(<<" ">>),
   TextRun(<<"a">>, <<>>, TRUE, FALSE, FALSE, FALSE),
   TextRun(<<"b">>, <<>>, FALSE, TRUE, FALSE, FALSE),
   TextRun(<<"a">>, <<<<"u">>>>, FALSE, FALSE, FALSE, TRUE),
   Mention("page", <<"p">>)}

RECURSIVE SeqsUpTo(_, _)
SeqsUpTo(S, n) ==
  IF n = 0 THEN {<<>>}
  ELSE LET shorter == SeqsUpTo(S, n - 1)
       IN shorter \cup {Append(q, x) : q \in shorter, x \in S}

SpanRunSeqs ==
  {<<r>> : r \in SpanRuns1} \cup (SeqsUpTo(SpanRunsN, MaxRuns) \ {<<>>})

SpanTokens ==
  {<<"*","*","a","*","*">>, <<"*","b","*">>, <<BTick,"a",BTick>>,
   <<"~","~","a","~","~">>, <<"[","a","]","(","u",")">>,
   <<"{","{","p","a","g","e",":","p","}","}">>,
   <<"*">>, <<"*","*">>, <<"a">>, <<" ">>, <<"[">>, <<"{">>, <<"~">>}

SpanTexts == {Concat(q) : q \in SeqsUpTo(SpanTokens, MaxSpanTok)}

SpanOff == sPhase = "off" /\ sRuns = <<>> /\ sText = <<>> /\ sOut = <<>>
DecOff ==
  /\ dPhase = "off" /\ dText = <<>> /\ dI = 0 /\ dBlocks = <<>>
  /\ dMd = <<>> /\ dBlocks2 = <<>> /\ dMd2 = <<>>

SpanInit ==
  /\ DecOff /\ LimIdle /\ EncIdle /\ RepIdle /\ CliIdle /\ ToolOff
  /\ sOut = <<>>
  /\ \/ sPhase = "runs" /\ sRuns \in SpanRunSeqs /\ sText = <<>>
     \/ sPhase = "text" /\ sRuns = <<>> /\ sText \in SpanTexts

\* richTextToMarkdown(runs)
SpanEncode ==
  /\ sPhase = "runs"
  /\ sText' = richTextToMarkdown(sRuns)
  /\ sPhase' = "encoded"
  /\ UNCHANGED <<sRuns, sOut, exceptSpan>>

\* parseInlineMarkdown(text)
SpanDecode ==
  /\ sPhase \in {"encoded", "text"}
  /\ sOut' = parseInlineMarkdown(sText)
  /\ sPhase' = IF sPhase = "encoded" THEN "roundtrip" ELSE "decoded"
  /\ UNCHANGED <<sRuns, sText, exceptSpan>>

SpanNext == SpanEncode \/ SpanDecode

SpecSpan == SpanInit /\ [][SpanNext]_vars

-----------------------------------------------------------------------------
(* Decode engine: markdownToBlocks run line by line over an input text,     *)
(* then the blocks encoded, decoded again and encoded again.                *)

MaxDivLen == 4
MaxLineTok == 3
MaxLines == 3

\* lines of divider characters and white space
DividerLike == SeqsUpTo({"-", "*", "_", " "}, MaxDivLen)

\* lines around the checklist form: marker, space, box, space, text
TodoLike ==
  {m \o w1 \o b \o w2 \o t :
     m \in {<<"-">>, <<"*">>, <<"+">>},
     w1 \in {<<>>, <<" ">>, <<" ", " ">>},
     b \in {<<"[", " ", "]">>, <<"[", "x", "]">>, <<"[", "X", "]">>,
            <<"[", "y", "]">>, <<"[", "x">>},
     w2 \in {<<>>, <<" ">>, <<" ", " ">>},
     t \in {<<>>, <<"q">>, <<"*", "*", "q", "*", "*">>}}

BmUrls == {<<"u">>, <<"u", ":", "v">>}
BmCaps == {<<"c">>, <<"c", " ", "q">>, <<"*", "c", "*">>}
BookmarkLike ==
  {p1 \o BookmarkOpen \o p2 \o u \o p2 \o c \o <<"}", "}">> \o p3 :
     p1 \in {<<>>, <<" ">>}, p2 \in {<<>>, <<" ">>}, p3 \in {<<>>, <<" ">>, <<"q">>},
     u \in BmUrls \cup {<<>>},
     c \in {<<>>, <<"|">>, <<"|", " ">>} \cup {<<"|">> \o x : x \in BmCaps}
           \cup {<<"|">> \o x \o <<" ">> : x \in BmCaps}}

LineTokens ==
  {<<"-", " ">>, <<"#", " ">>, <<"1", ".", " ">>, <<">">>, <<" ">>,
   <<"q">>, <<"*", "*", "q", "*", "*">>,
   <<"!", "[", "a", "]", "(", "u", ")">>,
   <<"{", "{", "e", "m", "b", "e", "d", ":", "u">>, <<"}", "}">>}
TokenLines == {Concat(q) : q \in SeqsUpTo(LineTokens, MaxLineTok)}

LineVocab ==
  {<<>>, <<"q">>, <<" ", " ", "-", " ", "q">>,
   Fence, Fence \o <<"p", "y">>, <<" ">> \o Fence \o <<"J", "S", " ", "q">>,
   <<"-", " ", "[", "x", "]", " ", "q">>, <<"-", "-", "-">>}
MultiLine == {Join(q, NL) : q \in SeqsUpTo(LineVocab, MaxLines)}

\* code blocks of one line under fences with a language tag
FenceTags ==
  {<<>>, <<"j","s">>, <<"T","s">>, <<"p","y">>, <<"r","b">>, <<"s","h">>,
   <<"y","m","l">>, <<"m","d">>, <<"G","o">>, <<"c","+","+">>,
   <<"c","o","n","s","t","r","u","c","t","o","r">>, <<" ","j","s">>}
FenceLike == {Join(<<Fence \o tag, <<"q">>, Fence>>, NL) : tag \in FenceTags}

DecodeTexts ==
  DividerLike \cup TodoLike \cup BookmarkLike \cup TokenLines \cup MultiLine
    \cup FenceLike

dLines == SplitLines(dText)

DecInit ==
  /\ SpanOff /\ LimIdle /\ EncIdle /\ RepIdle /\ CliIdle /\ ToolOff
  /\ dPhase = "run" /\ dText \in DecodeTexts /\ dI = 1 /\ dBlocks = <<>>
  /\ dMd = <<>> /\ dBlocks2 = <<>> /\ dMd2 = <<>>

\* one iteration of the while loop that takes the branch `kind`
DecApply(kind, s) ==
  /\ s.kind = kind
  /\ dBlocks' = dBlocks \o s.out
  /\ dI' = s.next
DecTake(kind) ==
  /\ dPhase = "run" /\ dI <= Len(dLines)
  /\ DecApply(kind, DecodeStep(dLines, dI))
  /\ UNCHANGED <<dPhase, dText, dMd, dBlocks2, dMd2, exceptDec>>

\* the loop ends: return blocks
DecReturn ==
  /\ dPhase = "run" /\ dI > Len(dLines)
  /\ dPhase' = "done"
  /\ UNCHANGED <<dText, dI, dBlocks, dMd, dBlocks2, dMd2, exceptDec>>

\* the blocks are appended to an empty page and the page is read back
DecEncode ==
  /\ dPhase = "done"
  /\ \A k \in 1..Len(dBlocks) :
       dBlocks[k].type = "code" => dBlocks[k].code.language # NotAString
  /\ dMd' = blocksToMarkdown(NoKids, StoredAll(dBlocks), 0)
  /\ dPhase' = "encoded"
  /\ UNCHANGED <<dText, dI, dBlocks, dBlocks2, dMd2, exceptDec>>

\* the text read back is decoded
DecRedecode ==
  /\ dPhase = "encoded"
  /\ dBlocks2' = markdownToBlocks(dMd)
  /\ dPhase' = "redecoded"
  /\ UNCHANGED <<dText, dI, dBlocks, dMd, dMd2, exceptDec>>

\* and encoded again
DecReencode ==
  /\ dPhase = "redecoded"
  /\ dMd2' = blocksToMarkdown(NoKids, StoredAll(dBlocks2), 0)
  /\ dPhase' = "reencoded"
  /\ UNCHANGED <<dText, dI, dBlocks, dMd, dBlocks2, exceptDec>>

DecBlank == DecTake("blank")
DecCode == DecTake("code")
DecHeading == DecTake("heading")
DecTodo == DecTake("todo")
DecBullet == DecTake("bullet")
DecNumbered == DecTake("numbered")
DecQuote == DecTake("quote")
DecDivider == DecTake("divider")
DecBookmark == DecTake("bookmark")
DecEmbed == DecTake("embed")
DecImage == DecTake("image")
DecParagraph == DecTake("paragraph")

DecNext ==
  \/ DecBlank \/ DecCode \/ DecHeading \/ DecTodo \/ DecBullet \/ DecNumbered
  \/ DecQuote \/ DecDivider \/ DecBookmark \/ DecEmbed \/ DecImage
  \/ DecParagraph \/ DecReturn \/ DecEncode \/ DecRedecode \/ DecReencode

SpecDecode == DecInit /\ [][DecNext]_vars

\* the loop run step by step computes markdownToBlocks
DecodeAgrees == dPhase = "done" => dBlocks = markdownToBlocks(dText)

-----------------------------------------------------------------------------
(* Properties of the decode engine                                          *)

NonBlank(lines) == SelectSeq(lines, LAMBDA l : ~IsBlank(l))
HasFence(lines) == \E k \in 1..Len(lines) : IsFence(lines[k])
FenceLines(lines) == {k \in 1..Len(lines) : IsFence(lines[k])}
Max(S) == CHOOSE x \in S : \A y \in S : y <= x

\* a line without leading white space removed from nothing but its indent
StripIndent(text) ==
  LET ls == SplitLines(text)
  IN Join([k \in 1..Len(ls) |-> Drop(ls[k], FirstNotIn(ls[k], 1, WS) - 1)], NL)

\* every string a run or a block holds
RunText(r) == r.content \o Concat(r.link) \o r.id
RichText(rt) == Concat([k \in 1..Len(rt) |-> RunText(rt[k])])
BlockText(b) ==
  CASE b.type = "code" -> RichText(b.code.rich_text) \o b.code.language
    [] b.type = "divider" -> <<>>
    [] b.type = "bookmark" -> b.bookmark.url \o RichText(b.bookmark.caption)
    [] b.type = "embed" -> b.embed.url
    [] b.type = "image" -> RichText(b.image.caption) \o b.image.external.url
    [] OTHER -> RichText(b[b.type].rich_text)

\* the letters the input lines use for text, as opposed to marker syntax
TextLetters == {"q", "c", "u", "v"}
Letters(t) == SelectSeq(t, LAMBDA ch : ch \in TextLetters)

\* C1: re-encode is idempotent: for the blocks T decode produced,
\* encode(decode(encode(T))) is the text encode(T), up to indentation.
C1_ReencodeIdempotent ==
  dPhase = "reencoded" => StripIndent(dMd2) = StripIndent(dMd)

\* C2: decode never loses input: every non-blank line outside a fenced group
\* yields one block, and the text letters of the line are the text letters of
\* that block, in order.
C2_NoInputLost ==
  (dPhase = "done" /\ ~HasFence(dLines)) =>
     /\ Len(dBlocks) = Len(NonBlank(dLines))
     /\ \A k \in 1..Len(dBlocks) :
          Letters(BlockText(dBlocks[k])) = Letters(NonBlank(dLines)[k])

\* the fence lines open and close groups in turn: an odd number of them
\* leaves the last one open to the end of the input
UnclosedFence(lines) == Cardinality(FenceLines(lines)) % 2 = 1

C3_State ==
  (dPhase = "done" /\ UnclosedFence(dLines)) =>
     /\ dBlocks # <<>>
     /\ dBlocks[Len(dBlocks)].type = "code"
     /\ dBlocks[Len(dBlocks)].code.rich_text =
          <<Plain(Join(Slice(dLines, Max(FenceLines(dLines)) + 1, Len(dLines)),
                       NL))>>
C3_Step ==
  dPhase = "run" =>
     /\ dI' > dI \/ (dI > Len(dLines) /\ dPhase' = "done")
     /\ dI' <= Len(dLines) + 2

\* C3: fence balance: with an opening fence and no closing fence before the
\* end of the input, the loop still ends (every iteration moves the cursor
\* forward, to at most one line past the end), the code block is the last
\* block emitted, and its content is all lines after the opening fence,
\* blank ones included, joined by newlines.
C3_FenceBalance == []C3_State /\ [][C3_Step]_vars

C3_Witness ==
  /\ dPhase = "done" /\ UnclosedFence(dLines)
  /\ Len(dLines) = 3 /\ IsFence(dLines[1]) /\ IsBlank(dLines[2])
  /\ dLines[3] = <<"q">> /\ Len(dBlocks) = 1

\* the checklist form: marker, white space, box, white space, text
TodoForm(line) ==
  \E a \in 1..Len(line) :
     /\ a + 5 <= Len(line)
     /\ line[1] \in {"-", "*"}
     /\ \A k \in 2..(a + 1) : line[k] \in WS
     /\ line[a + 2] = "[" /\ line[a + 3] \in {" ", "x", "X"} /\ line[a + 4] = "]"
     /\ line[a + 5] \in WS
TodoBox(line) == line[FirstNotIn(line, 2, WS) + 1]
\* the divider form: three or more of - * _ and nothing else, once trimmed
DividerForm(line) ==
  /\ Len(Trim(line)) >= 3
  /\ \A k \in 1..Len(Trim(line)) : Trim(line)[k] \in {"-", "*", "_"}

\* C4: priority resolution: a line of the checklist form at the cursor is
\* classified as a checklist item, checked exactly when the box holds x or
\* X, never as a bulleted item; a line of the divider form is classified as
\* a divider, never as a bulleted or numbered item.
C4_Priority ==
  [][(dPhase = "run" /\ dI <= Len(dLines)) =>
       /\ TodoForm(dLines[dI]) =>
            /\ Len(dBlocks') = Len(dBlocks) + 1
            /\ dBlocks'[Len(dBlocks')].type = "to_do"
            /\ dBlocks'[Len(dBlocks')].to_do.checked
                 = (TodoBox(dLines[dI]) \in {"x", "X"})
       /\ DividerForm(dLines[dI]) =>
            dBlocks' = Append(dBlocks, DividerBlock)]_vars

C4_Witness ==
  /\ dPhase = "done"
  /\ Len(dLines) = 2 /\ TodoForm(dLines[1]) /\ DividerForm(dLines[2])
  /\ Len(dBlocks) = 2
  /\ dBlocks[1].type = "to_do" /\ dBlocks[1].to_do.checked
  /\ dBlocks[2].type = "divider"

\* the units of a text: a line that is not white space only, or a fenced
\* group, from a line that opens with the fence to the next such line or to
\* the end of the text; a unit is the pair of its first and last line
AllSpace(line) == \A k \in 1..Len(line) : line[k] \in WS
OpensFence(line) == At(line, FirstNotIn(line, 1, WS), Fence)
GroupEnd(lines, k) ==
  IF \E j \in (k + 1)..Len(lines) : OpensFence(lines[j])
  THEN Min({j \in (k + 1)..Len(lines) : OpensFence(lines[j])})
  ELSE Len(lines)
RECURSIVE Units(_, _)
Units(lines, k) ==
  IF k > Len(lines) THEN <<>>
  ELSE IF AllSpace(lines[k]) THEN Units(lines, k + 1)
  ELSE IF OpensFence(lines[k])
  THEN <<(<<k, GroupEnd(lines, k)>>)>> \o Units(lines, GroupEnd(lines, k) + 1)
  ELSE <<(<<k, k>>)>> \o Units(lines, k + 1)
UnitText(lines, u) == Join(SubSeq(lines, u[1], u[2]), NL)
Childless(b) ==
  /\ "children" \notin DOMAIN b /\ "has_children" \notin DOMAIN b
  /\ "children" \notin DOMAIN b[b.type]

\* C14: decode output is flat and ordered: markdownToBlocks emits one block
\* for every line that is not blank and lies outside a fenced group and one
\* for every fenced group, in the order of the input, none for a blank line,
\* and no block carries children, whatever the indentation of its line.
C14_State ==
  dPhase # "run" =>
    /\ Len(dBlocks) = Len(Units(dLines, 1))
    /\ \A n \in 1..Len(dBlocks) :
         /\ dBlocks[n] = markdownToBlocks(UnitText(dLines, Units(dLines, 1)[n]))[1]
         /\ (dBlocks[n].type = "code") <=> OpensFence(dLines[Units(dLines, 1)[n][1]])
         /\ Childless(dBlocks[n])
C14_Step ==
  (dPhase = "run" /\ dI <= Len(dLines)) =>
    /\ AllSpace(dLines[dI]) => dBlocks' = dBlocks /\ dI' = dI + 1
    /\ ~AllSpace(dLines[dI]) =>
         /\ Len(dBlocks') = Len(dBlocks) + 1
         /\ SubSeq(dBlocks', 1, Len(dBlocks)) = dBlocks
         /\ dI' > (IF OpensFence(dLines[dI]) THEN GroupEnd(dLines, dI) ELSE dI)
C14_FlatOrdered == []C14_State /\ [][C14_Step]_vars
\* an indented list line under a list line, a blank line, a fenced group
C14_Witness ==
  /\ dPhase = "done" /\ Len(dLines) >= 3 /\ Len(dBlocks) = 2
  /\ \E k \in 1..Len(dLines) :
       /\ ~AllSpace(dLines[k]) /\ dLines[k][1] = " " /\ ~OpensFence(dLines[k])
  /\ \E k \in 1..Len(dLines) : AllSpace(dLines[k])

\* the bookmark placeholder for a url and a caption (none when empty)
BmLine(u, c) ==
  BookmarkOpen \o u \o (IF c = <<>> THEN <<>> ELSE <<"|">> \o c) \o <<"}", "}">>

\* decoding a placeholder with a caption yields the url and the caption text
C8_Captioned ==
  \A u \in BmUrls, c \in BmCaps :
     (dPhase = "done" /\ dText = BmLine(u, c)) =>
        dBlocks = <<BookmarkBlock(u, <<Plain(c)>>)>>
\* a bookmark without a caption is encoded with no caption segment
C8_EncodedBare ==
  (dPhase = "encoded" /\ Len(dBlocks) = 1 /\ dBlocks[1].type = "bookmark"
   /\ dBlocks[1].bookmark.caption = <<>>) =>
     /\ dMd = BookmarkOpen \o dBlocks[1].bookmark.url \o <<"}", "}">>
     /\ \A k \in 1..Len(dMd) : dMd[k] # "|"

-----------------------------------------------------------------------------
(* Properties of the span codec                                             *)

BoldOnly(r) ==
  /\ r.kind = "text" /\ r.content # <<>> /\ r.link = <<>>
  /\ r.bold /\ ~r.italic /\ ~r.strikethrough /\ ~r.code

\* C5: annotation round trip: a literal run with non-empty content and only
\* the bold annotation, encoded and decoded, is one run with the same
\* content, bold and nothing else; the text **a** *b* decodes to bold a, an
\* unannotated space, italic b.
C5_BoldRoundTrip ==
  /\ (sPhase = "roundtrip" /\ Len(sRuns) = 1 /\ BoldOnly(sRuns[1])) =>
        sOut = sRuns
  /\ (sPhase = "decoded"
      /\ sText = <<"*","*","a","*","*"," ","*","b","*">>) =>
        sOut = <<TextRun(<<"a">>, <<>>, TRUE, FALSE, FALSE, FALSE),
                 Plain(<<" ">>),
                 TextRun(<<"b">>, <<>>, FALSE, TRUE, FALSE, FALSE)>>

-----------------------------------------------------------------------------
(* get_page (tools/pages.ts), two invocations at a time, every outbound     *)
(* call through the one rate limiter.                                       *)


\* the locals of an invocation belong to that invocation
Slot_Shared(p) == 1
Slot(p) == p

\* parts before the markdown: title, id, last edited, "" (the page has no
\* property but the title, so no properties part)
HeaderParts(page) ==
  << <<"#", " ">> \o page.title \o NL,
     <<">"," ","P","a","g","e"," ","I","D",":"," ">> \o <<page.id>>,
     <<">"," ","L","a","s","t"," ","e","d","i","t","e","d",":"," ">>
       \o <<page.last_edited_time>>,
     <<>> >>
\* the handler's answers
Answer(page, markdown) ==
  [isError |-> FALSE,
   text |-> Join(HeaderParts(PageObject(page)) \o <<markdown>>, NL)]
ErrorAnswer(err) ==
  [isError |-> TRUE,
   text |-> <<"E","r","r","o","r"," ","g","e","t","t","i","n","g"," ",
              "p","a","g","e",":"," ">> \o <<err>>]

Lim ==
  [tokens |-> tokens, since |-> sinceRefill, queue |-> queue,
   draining |-> draining, timer |-> timer]
World ==
  [lim |-> Lim, calls |-> calls, log |-> fetchLog, load |-> windowLoad]
SetLim(L) ==
  /\ tokens' = L.tokens /\ sinceRefill' = L.since /\ queue' = L.queue
  /\ draining' = L.draining /\ timer' = L.timer
SetWorld(W) ==
  /\ SetLim(W.lim) /\ calls' = W.calls /\ fetchLog' = W.log
  /\ windowLoad' = W.load

EncInit == SpanOff /\ DecOff /\ LimIdle /\ EncIdle /\ RepIdle /\ CliIdle /\ ToolOff

\* the handler is called: Promise.all([apiCall(pages.retrieve),
\* collectAllBlocks(page_id)])
GetPage(p, page) ==
  /\ hPhase[p] = "idle"
  /\ \A q \in Procs : hPage[q] # page
  /\ SetWorld(apiCall(apiCall(World, <<p, "meta">>, page), <<p, "list">>, page))
  /\ hPhase' = [hPhase EXCEPT ![p] = "loading"]
  /\ hPage' = [hPage EXCEPT ![p] = page]
  /\ cfg' = [cfg EXCEPT ![Slot(p)] = [stack |-> <<>>, mode |-> "fetch", val |-> page]]
  /\ actor' = p
  /\ UNCHANGED <<hMeta, result, failed, exceptEnc>>

\* the encode of p stands at c: the next fetch goes out, or the handler
\* answers
Proceed(p, c, W) ==
  /\ cfg' = [cfg EXCEPT ![Slot(p)] = c]
  /\ IF c.mode = "fetch"
     THEN /\ SetWorld(apiCall(W, <<p, "list">>, c.val))
          /\ hPhase' = [hPhase EXCEPT ![p] = "encoding"]
          /\ UNCHANGED result
     ELSE /\ SetWorld(W)
          /\ hPhase' = [hPhase EXCEPT ![p] = "done"]
          /\ result' = [result EXCEPT ![p] =
               IF c.mode = "done" THEN Answer(hPage[p], c.val)
               ELSE ErrorAnswer(c.val)]

\* pages.retrieve answers; when the root blocks are there too, Promise.all
\* resolves and blocksToMarkdown(blocks) is called
RetrieveOk(p) ==
  /\ hPhase[p] = "loading" /\ calls[<<p, "meta">>].st = "inflight"
  /\ hMeta' = [hMeta EXCEPT ![p] = TRUE]
  /\ IF cfg[Slot(p)].mode = "root"
     THEN Proceed(p, Enter(cfg[Slot(p)].val), Settled(World, <<p, "meta">>))
     ELSE /\ SetWorld(Settled(World, <<p, "meta">>))
          /\ UNCHANGED <<hPhase, cfg, result>>
  /\ actor' = p
  /\ UNCHANGED <<hPage, failed, exceptEnc>>

\* collectAllBlocks(page_id) answers
RootOk(p) ==
  /\ hPhase[p] = "loading" /\ calls[<<p, "list">>].st = "inflight"
  /\ cfg[Slot(p)].mode = "fetch"
  /\ IF hMeta[p]
     THEN Proceed(p, Enter(Store[calls[<<p, "list">>].arg]),
                  Settled(World, <<p, "list">>))
     ELSE /\ SetWorld(Settled(World, <<p, "list">>))
          /\ cfg' = [cfg EXCEPT ![Slot(p)] =
               [stack |-> <<>>, mode |-> "root",
                val |-> Store[calls[<<p, "list">>].arg]]]
          /\ UNCHANGED <<hPhase, result>>
  /\ actor' = p
  /\ UNCHANGED <<hPage, hMeta, failed, exceptEnc>>

\* a collectAllBlocks of the encode answers
ChildrenOk(p) ==
  /\ hPhase[p] = "encoding" /\ calls[<<p, "list">>].st = "inflight"
  /\ cfg[Slot(p)].mode = "fetch"
  /\ Proceed(p, Resume(cfg[Slot(p)], Store[calls[<<p, "list">>].arg]),
             Settled(World, <<p, "list">>))
  /\ actor' = p
  /\ UNCHANGED <<hPage, hMeta, failed, exceptEnc>>

\* a call of Promise.all rejects: the catch of the handler answers
LoadFail(p, k, err) ==
  /\ hPhase[p] = "loading" /\ calls[<<p, k>>].st = "inflight"
  /\ SetWorld(Settled(World, <<p, k>>))
  /\ hPhase' = [hPhase EXCEPT ![p] = "done"]
  /\ cfg' = [cfg EXCEPT ![Slot(p)] = [stack |-> <<>>, mode |-> "threw", val |-> err]]
  /\ result' = [result EXCEPT ![p] = ErrorAnswer(err)]
  /\ failed' = [failed EXCEPT ![p] = @ \cup {k}]
  /\ actor' = p
  /\ UNCHANGED <<hPage, hMeta, exceptEnc>>

\* a collectAllBlocks of the encode rejects
ChildrenFail(p, err) ==
  /\ hPhase[p] = "encoding" /\ calls[<<p, "list">>].st = "inflight"
  /\ cfg[Slot(p)].mode = "fetch"
  /\ Proceed(p, Reject(cfg[Slot(p)], err), Settled(World, <<p, "list">>))
  /\ failed' = [failed EXCEPT ![p] = @ \cup {"list"}]
  /\ actor' = p
  /\ UNCHANGED <<hPage, hMeta, exceptEnc>>

\* a call settles after the handler has answered: nobody awaits it
LateSettle(p, k, ok) ==
  /\ hPhase[p] = "done" /\ calls[<<p, k>>].st = "inflight"
  /\ SetWorld(Settled(World, <<p, k>>))
  /\ failed' = [failed EXCEPT ![p] = IF ok THEN @ ELSE @ \cup {k}]
  /\ actor' = p
  /\ UNCHANGED <<hPhase, hPage, hMeta, cfg, result, exceptEnc>>

\* one unit of time passes
Tick ==
  /\ sinceRefill' = Min({MAX_TOKENS, sinceRefill + 1})
  /\ timer' = IF timer > 0 THEN timer - 1 ELSE timer
  /\ windowLoad' = IF windowLoad > 0 THEN windowLoad - 1 ELSE 0
  /\ actor' = 0
  /\ UNCHANGED <<tokens, queue, draining, calls, hPhase, hPage, hMeta, cfg,
                 result, fetchLog, failed, exceptEnc>>

\* the setTimeout of drainQueue fires and the loop goes on
DrainAdmit(W, d) == Issue([W EXCEPT !.lim = d.lim], d.out)
DrainWake ==
  /\ draining /\ timer = 0
  /\ SetWorld(DrainAdmit(World, DrainLoop([Lim EXCEPT !.timer = -1], <<>>)))
  /\ actor' = 0
  /\ UNCHANGED <<hPhase, hPage, hMeta, cfg, result, failed, exceptEnc>>

EncNext ==
  \/ \E p \in Procs, page \in Pages : GetPage(p, page)
  \/ \E p \in Procs : RetrieveOk(p)
  \/ \E p \in Procs : RootOk(p)
  \/ \E p \in Procs : ChildrenOk(p)
  \/ \E p \in Procs, k \in CallKinds, err \in Errors : LoadFail(p, k, err)
  \/ \E p \in Procs, err \in Errors : ChildrenFail(p, err)
  \/ \E p \in Procs, k \in CallKinds, ok \in BOOLEAN : LateSettle(p, k, ok)
  \/ Tick
  \/ DrainWake

SpecEncode == EncInit /\ [][EncNext]_vars

\* one invocation alone, over every page of the store
WalkNext ==
  \/ \E page \in WalkPages : GetPage(1, page)
  \/ RetrieveOk(1)
  \/ RootOk(1)
  \/ ChildrenOk(1)
  \/ \E k \in CallKinds, err \in Errors : LoadFail(1, k, err)
  \/ \E err \in Errors : ChildrenFail(1, err)
  \/ \E k \in CallKinds, ok \in BOOLEAN : LateSettle(1, k, ok)
  \/ Tick
  \/ DrainWake

SpecWalk == EncInit /\ [][WalkNext]_vars

-----------------------------------------------------------------------------
(* replace_page_content: one invocation on a page that holds old blocks.    *)

MaxExisting == 2

ReplacePage == "P"
\* the content argument: nothing, one line, three lines, and a text of one
\* line more than an insert batch holds
ManyLines == Join([k \in 1..(INSERT_BATCH_SIZE + 1) |-> <<"q">>], NL)
ReplaceContents ==
  {<<>>, <<"q">>, <<"#", " ", "h", "\n", "-", " ", "x", "\n", "q">>, ManyLines}

\* seq.slice(i, i + size), i counted from 1
Batch(seq, i, size) == SubSeq(seq, i, Min({Len(seq), i + size - 1}))

\* the summary the handler answers with
Summary(dc, total, df, cc) ==
  [isError |-> FALSE, deletedCount |-> dc, totalToDelete |-> total,
   deleteFailed |-> df, createdCount |-> cc]
ReplaceError(err) == [isError |-> TRUE, error |-> err]

\* batch.map((block) => apiCall(() => notion.blocks.delete(...)))
RECURSIVE IssueDeletes(_, _, _)
IssueDeletes(W, batch, j) ==
  IF j > Len(batch) THEN W
  ELSE IssueDeletes(apiCall(W, <<j, "delete">>, batch[j].n), batch, j + 1)

RepInit ==
  /\ SpanOff /\ DecOff /\ LimIdle /\ EncIdle /\ CliIdle /\ ToolOff
  /\ rPhase = "idle" /\ rContent = <<>>
  /\ \E n \in (0..MaxExisting) \cup {DELETE_BATCH_SIZE + 1} :
       rPage = [k \in 1..n |-> OldBlock(k)]
  /\ existing = <<>> /\ rI = 0 /\ settled = <<>> /\ deletedCount = 0
  /\ deleteFailed = <<>> /\ newBlocks = <<>> /\ rJ = 0 /\ createdCount = 0
  /\ rResult = NoResult

\* the handler is called: collectAllBlocks(page_id)
ReplaceCall(content) ==
  /\ rPhase = "idle"
  /\ rContent' = content
  /\ rPhase' = "listing"
  /\ SetWorld(apiCall(World, <<0, "list">>, ReplacePage))
  /\ UNCHANGED <<rPage, existing, rI, settled, deletedCount, deleteFailed,
                 newBlocks, rJ, createdCount, rResult, 
                exceptRep>>

\* the insert loop stands at index i of nb with cc blocks created: the next
\* batch is sent, or the handler answers with the summary
InsertFrom(W, nb, i, cc, total, dc, df) ==
  /\ newBlocks' = nb /\ rJ' = i /\ createdCount' = cc
  /\ deletedCount' = dc /\ deleteFailed' = df
  /\ IF i <= Len(nb)
     THEN /\ SetWorld(apiCall(W, <<0, "append">>, ReplacePage))
          /\ rPhase' = "appending"
          /\ UNCHANGED rResult
     ELSE /\ SetWorld(W)
          /\ rPhase' = "done"
          /\ rResult' = Summary(dc, total, df, cc)

\* the delete loop stands at index i of ex: the next batch is sent, or
\* markdownToBlocks(content) and the insert loop follow
DeleteFrom(W, ex, i, dc, df) ==
  /\ existing' = ex
  /\ IF i <= Len(ex)
     THEN /\ SetWorld(IssueDeletes(W, Batch(ex, i, DELETE_BATCH_SIZE), 1))
          /\ rPhase' = "deleting"
          /\ rI' = i
          /\ settled' = [j \in 1..Len(Batch(ex, i, DELETE_BATCH_SIZE)) |-> "pending"]
          /\ deletedCount' = dc /\ deleteFailed' = df
          /\ UNCHANGED <<newBlocks, rJ, createdCount, rResult>>
     ELSE /\ InsertFrom(W, markdownToBlocks(rContent), 1, 0, Len(ex), dc, df)
          /\ UNCHANGED <<rI, settled>>

\* collectAllBlocks answers with the page's blocks
ExistingOk ==
  /\ rPhase = "listing" /\ calls[<<0, "list">>].st = "inflight"
  /\ DeleteFrom(Settled(World, <<0, "list">>), rPage, 1, 0, <<>>)
  /\ UNCHANGED <<rContent, rPage, exceptRep>>

\* a call outside Promise.allSettled rejects: the catch answers
Caught(k, err) ==
  /\ calls[<<0, k>>].st = "inflight"
  /\ SetWorld(Settled(World, <<0, k>>))
  /\ rPhase' = "done"
  /\ rResult' = ReplaceError(err)
  /\ UNCHANGED <<rContent, rPage, existing, rI, settled, deletedCount,
                 deleteFailed, newBlocks, rJ, createdCount, 
                exceptRep>>
ExistingFail(err) == rPhase = "listing" /\ Caught("list", err)
AppendFail(err) == rPhase = "appending" /\ Caught("append", err)

\* the page after blocks.delete of the old block n succeeded
Without(page, n) ==
  SelectSeq(page, LAMBDA b : ~(b.origin = "old" /\ b.n = n))
\* the results of a settled batch: the number fulfilled, the ids rejected
Fulfilled(res) == Len(SelectSeq(res, LAMBDA r : r = "fulfilled"))
RECURSIVE Rejected(_, _, _)
Rejected(res, batch, j) ==
  IF j > Len(res) THEN <<>>
  ELSE (IF res[j] = "rejected" THEN <<batch[j].n>> ELSE <<>>)
       \o Rejected(res, batch, j + 1)
Pending(res) == \E j \in 1..Len(res) : res[j] = "pending"
Outcome(ok) == IF ok THEN "fulfilled" ELSE "rejected"

\* what the provider can answer to the delete of the old block n: any
\* block of a short page can be refused, on the page of more than one
\* batch the first block and the one after the first batch
DeleteOutcomes(n) ==
  IF Len(existing) <= MaxExisting \/ n \in {1, DELETE_BATCH_SIZE + 1}
  THEN BOOLEAN ELSE {TRUE}
\* the server's answer to the delete of slot j
Deleted(j, ok) ==
  /\ rPhase = "deleting" /\ calls[<<j, "delete">>].st = "inflight"
  /\ ok \in DeleteOutcomes(calls[<<j, "delete">>].arg)
  /\ rPage' = IF ok THEN Without(rPage, calls[<<j, "delete">>].arg) ELSE rPage

\* a delete of the batch settles while others are outstanding
DeleteSettles(j, ok) ==
  /\ Deleted(j, ok)
  /\ Pending([settled EXCEPT ![j] = Outcome(ok)])
  /\ settled' = [settled EXCEPT ![j] = Outcome(ok)]
  /\ SetWorld(Settled(World, <<j, "delete">>))
  /\ UNCHANGED <<rPhase, rContent, existing, rI, deletedCount, deleteFailed,
                 newBlocks, rJ, createdCount, rResult, 
                exceptRep>>

\* the results counted with the rejected deletes left out
BatchDone_NoFailures(res, W) ==
  DeleteFrom(W, existing, rI + DELETE_BATCH_SIZE,
             deletedCount + Fulfilled(res), deleteFailed)
\* the last delete of the batch settles: Promise.allSettled resolves, the
\* results are counted and the loop goes on
BatchDone(res, W) ==
  DeleteFrom(W, existing, rI + DELETE_BATCH_SIZE,
             deletedCount + Fulfilled(res),
             deleteFailed
               \o Rejected(res, Batch(existing, rI, DELETE_BATCH_SIZE), 1))
BatchSettles(j, ok) ==
  /\ Deleted(j, ok)
  /\ ~Pending([settled EXCEPT ![j] = Outcome(ok)])
  /\ BatchDone([settled EXCEPT ![j] = Outcome(ok)],
               Settled(World, <<j, "delete">>))
  /\ UNCHANGED <<rContent, exceptRep>>

\* children.append answers: the batch is at the end of the page
Appended(page, nb, i) ==
  page \o [k \in 1..Len(Batch(nb, i, INSERT_BATCH_SIZE)) |->
             PageBlock("new", i + k - 1, nb[i + k - 1])]
AppendOk ==
  /\ rPhase = "appending" /\ calls[<<0, "append">>].st = "inflight"
  /\ rPage' = Appended(rPage, newBlocks, rJ)
  /\ InsertFrom(Settled(World, <<0, "append">>), newBlocks,
                rJ + INSERT_BATCH_SIZE,
                createdCount + Len(Batch(newBlocks, rJ, INSERT_BATCH_SIZE)),
                Len(existing), deletedCount, deleteFailed)
  /\ UNCHANGED <<rContent, existing, rI, settled, exceptRep>>

RepNext ==
  \/ \E content \in ReplaceContents : ReplaceCall(content)
  \/ ExistingOk
  \/ \E err \in Errors : ExistingFail(err)
  \/ \E j \in 1..DELETE_BATCH_SIZE, ok \in BOOLEAN : DeleteSettles(j, ok)
  \/ \E j \in 1..DELETE_BATCH_SIZE, ok \in BOOLEAN : BatchSettles(j, ok)
  \/ AppendOk
  \/ \E err \in Errors : AppendFail(err)
  \/ Tick
  \/ DrainWake

SpecReplace == RepInit /\ [][RepNext]_vars

-----------------------------------------------------------------------------
(* The rate limiter under any callers: apiCall(fn) is called while others   *)
(* are waiting or under way, fn() settles at any time.  The unit of time is *)
(* the time the bucket takes to refill one token (1 / TOKENS_PER_SEC).      *)

LimInit ==
  SpanOff /\ DecOff /\ LimIdle /\ EncIdle /\ RepIdle /\ CliIdle /\ ToolOff

\* apiCall(fn)
ClientCall(c) ==
  /\ sent < MaxSent
  /\ calls[c].st = "none"
  /\ SetWorld(apiCall(World, c, ""))
  /\ sent' = sent + 1
  /\ UNCHANGED exceptCli

\* fn() settles and apiCall returns
ClientReturn(c) ==
  /\ calls[c].st = "inflight"
  /\ SetWorld(Settled(World, c))
  /\ UNCHANGED <<exceptCli, cliVars>>

LimNext ==
  \/ \E c \in ClientCalls : ClientCall(c)
  \/ \E c \in ClientCalls : ClientReturn(c)
  \/ Tick
  \/ DrainWake

SpecLimiter == LimInit /\ [][LimNext]_vars

\* the limiter under a stream of calls that does not end: apiCall(fn) by a
\* client whose earlier call has returned, as often as it likes
ClientArrives(c) ==
  /\ calls[c].st = "none"
  /\ SetWorld(apiCall(World, c, ""))
  /\ UNCHANGED <<exceptCli, cliVars>>

ArrNext ==
  \/ \E c \in ClientCalls : ClientArrives(c)
  \/ \E c \in ClientCalls : ClientReturn(c)
  \/ Tick
  \/ DrainWake

SpecArrivals == LimInit /\ [][ArrNext]_vars
\* time passes, and a timer that has expired has its callback run
LiveLimiter == SpecLimiter /\ WF_vars(Tick) /\ WF_vars(DrainWake)
LiveArrivals == SpecArrivals /\ WF_vars(Tick) /\ WF_vars(DrainWake)

-----------------------------------------------------------------------------
(* batch_delete_blocks: one invocation.  The provider deletes the block     *)
(* "a", rejects the delete of "x" and may do either with "u".               *)

BATCH_SIZE == 10
MaxIds == 2

BlockIdArgs == {"a", "x", "u"}
DeleteAnswers(id) ==
  IF id = "a" THEN {TRUE} ELSE IF id = "x" THEN {FALSE} ELSE BOOLEAN
\* the block_ids argument: every short list, and a list of one id more than
\* a batch holds
LongIds ==
  [k \in 1..(BATCH_SIZE + 1) |-> IF k \in {2, BATCH_SIZE + 1} THEN "x" ELSE "a"]
BlockIdLists == SeqsUpTo(BlockIdArgs, MaxIds) \cup {LongIds}

\* batch.map((id) => apiCall(() => notion.blocks.delete({ block_id: id })))
RECURSIVE IssueBatch(_, _, _)
IssueBatch(W, batch, j) ==
  IF j > Len(batch) THEN W
  ELSE IssueBatch(apiCall(W, <<j, "delete">>, batch[j]), batch, j + 1)

PendingResult == [status |-> "pending"]
SettledResult(ok, err) ==
  IF ok THEN [status |-> "fulfilled"]
  ELSE [status |-> "rejected", reason |-> err]
\* the loop over results: deleted++ or failed.push({ id, error })
FulfilledCount(res) == Len(SelectSeq(res, LAMBDA r : r.status = "fulfilled"))
RECURSIVE FailedOf(_, _, _)
FailedOf(res, batch, j) ==
  IF j > Len(res) THEN <<>>
  ELSE (IF res[j].status = "fulfilled" THEN <<>>
        ELSE <<[id |-> batch[j], error |-> res[j].reason]>>)
       \o FailedOf(res, batch, j + 1)
\* i += BATCH_SIZE
NextIndex_Skip(i) == i + BATCH_SIZE + 1
NextIndex(i) == i + BATCH_SIZE

\* the lines of the answer and isError
DeletedLine(deleted, total) ==
  [kind |-> "deleted", deleted |-> deleted, total |-> total]
FailedLines(fails) ==
  IF Len(fails) > 0
  THEN <<[kind |-> "failed", count |-> Len(fails)]>>
       \o [k \in 1..Len(fails) |->
             [kind |-> "item", id |-> fails[k].id, error |-> fails[k].error]]
  ELSE <<>>
BatchAnswer(deleted, total, fails) ==
  [isError |-> Len(fails) > 0,
   lines |-> <<DeletedLine(deleted, total)>> \o FailedLines(fails)]

\* the handler with its argument, before the loop; attempts and outcome
\* record what the provider was asked and answered for each entry
BatchStart(ids) ==
  [phase |-> "idle", ids |-> ids, i |-> 1, settled |-> <<>>, deleted |-> 0,
   failed |-> <<>>, result |-> NoResult,
   attempts |-> [k \in 1..Len(ids) |-> 0],
   outcome |-> [k \in 1..Len(ids) |-> PendingResult]]

BdInit ==
  /\ SpanOff /\ DecOff /\ LimIdle /\ EncIdle /\ RepIdle /\ CliIdle
  /\ bd = BatchStart(<<>>) /\ ub = [phase |-> "off"]

\* the for loop stands at index i: the next batch is sent, or the handler
\* answers
BatchFrom(W, b) ==
  IF b.i <= Len(b.ids)
  THEN /\ SetWorld(IssueBatch(W, Batch(b.ids, b.i, BATCH_SIZE), 1))
       /\ bd' = [b EXCEPT !.phase = "deleting",
                          !.settled = [j \in 1..Len(Batch(b.ids, b.i, BATCH_SIZE))
                                         |-> PendingResult]]
  ELSE /\ SetWorld(W)
       /\ bd' = [b EXCEPT !.phase = "done",
                          !.result = BatchAnswer(b.deleted, Len(b.ids), b.failed)]

\* the handler is called
BatchDeleteCall(ids) ==
  /\ bd.phase = "idle"
  /\ BatchFrom(World, BatchStart(ids))
  /\ UNCHANGED <<ub, exceptTool>>

\* Promise.allSettled has resolved with res: the results are counted and the
\* loop goes on
BatchCounted(W, b, res) ==
  BatchFrom(W, [b EXCEPT !.i = NextIndex(@),
                         !.deleted = @ + FulfilledCount(res),
                         !.failed = @ \o FailedOf(res, Batch(b.ids, b.i, BATCH_SIZE), 1)])
\* the provider has answered the delete of slot j
BatchSettled(W, b, res) ==
  IF \E j \in 1..Len(res) : res[j] = PendingResult
  THEN SetWorld(W) /\ bd' = b
  ELSE BatchCounted(W, b, res)
DeleteAnswered(j, ok, err) ==
  /\ bd.phase = "deleting" /\ calls[<<j, "delete">>].st = "inflight"
  /\ ok \in DeleteAnswers(calls[<<j, "delete">>].arg)
  /\ BatchSettled(Settled(World, <<j, "delete">>),
                  [bd EXCEPT !.settled[j] = SettledResult(ok, err),
                             !.attempts[bd.i + j - 1] = @ + 1,
                             !.outcome[bd.i + j - 1] = SettledResult(ok, err)],
                  [bd.settled EXCEPT ![j] = SettledResult(ok, err)])
  /\ UNCHANGED <<ub, exceptTool>>

BdNext ==
  \/ \E ids \in BlockIdLists : BatchDeleteCall(ids)
  \/ \E j \in 1..BATCH_SIZE, ok \in BOOLEAN, err \in Errors :
       DeleteAnswered(j, ok, err)
  \/ Tick
  \/ DrainWake

SpecBatchDelete == BdInit /\ [][BdNext]_vars

-----------------------------------------------------------------------------
(* update_block: one invocation on a block the provider holds.              *)

\* ([^[*`~]+|[*`~[]+)
RichSpecial == InlineSpecial \ {"{"}
MatchPlainText(t, p) ==
  IF p > Len(t) THEN NoMatch
  ELSE IF t[p] \notin RichSpecial
  THEN Got(Plain(Slice(t, p, FirstIn(t, p, RichSpecial) - 1)),
           FirstIn(t, p, RichSpecial))
  ELSE Got(Plain(Slice(t, p, FirstNotIn(t, p, RichSpecial) - 1)),
           FirstNotIn(t, p, RichSpecial))
\* the alternation of parseInlineToRichText's regular expression
RichMatchAt(t, p) ==
  FirstOk(<<MatchLink(t, p), MatchBold(t, p), MatchItalic(t, p),
            MatchCode(t, p), MatchStrike(t, p), MatchPlainText(t, p)>>)
RECURSIVE RichScan(_, _)
RichTake(t, p, m) ==
  IF m.ok THEN <<m.item>> \o RichScan(t, m.next) ELSE RichScan(t, p + 1)
RichScan(t, p) ==
  IF p > Len(t) THEN <<>> ELSE RichTake(t, p, RichMatchAt(t, p))
\* if (items.length === 0) items.push({ text: { content: text } })
OrText(t, items) == IF items = <<>> THEN <<Plain(t)>> ELSE items
\* blocks.ts parseInlineToRichText
parseInlineToRichText(t) == OrText(t, RichScan(t, 1))

\* the block the provider holds: its type and, under the type's key, the
\* payload; a partial response carries no type
UpdateId == "b"
OldText == <<Plain(<<"o">>)>>
Icons == {<<>>, <<"i">>}
Languages == {"python", "plain text"}
TextTypes ==
  {"paragraph", "heading_1", "heading_2", "heading_3", "bulleted_list_item",
   "numbered_list_item", "to_do", "toggle", "quote", "callout", "code"}
PlainTypes == TextTypes \ {"to_do", "callout", "code"}
PartialBlock == [object |-> "block", id |-> UpdateId]
HeldBlocks ==
  {RichBlock(type, OldText) : type \in PlainTypes}
  \cup {TodoBlock(OldText, checked) : checked \in BOOLEAN}
  \cup {[type |-> "callout", callout |-> [rich_text |-> OldText, icon |-> icon]] :
          icon \in Icons}
  \cup {CodeBlock(<<"o">>, language) : language \in Languages}
  \cup {DividerBlock, EmbedBlock(<<"u">>), ImageBlock(<<"u">>, <<>>)}
  \cup {PartialBlock}
UpdateContents ==
  {<<>>, <<"q">>, <<"*","*","q","*","*">>, <<"[","a","]","(","u",")">>,
   <<"{","q">>}
isFullBlock(response) == "type" \in DOMAIN response

\* the switch on existing.type: the value stored under the type's key
TypePayload_TextOnly(block, content) ==
  [rich_text |-> parseInlineToRichText(content)]
TypePayload(block, content) ==
  CASE block.type \in PlainTypes ->
         [rich_text |-> parseInlineToRichText(content)]
    [] block.type = "to_do" ->
         [rich_text |-> parseInlineToRichText(content),
          checked |-> block.to_do.checked]
    [] block.type = "callout" ->
         [rich_text |-> parseInlineToRichText(content),
          icon |-> block.callout.icon]
    [] block.type = "code" ->
         [rich_text |-> <<Plain(content)>>, language |-> block.code.language]
\* updatePayload
UpdatePayload(block, content) ==
  ("block_id" :> UpdateId) @@ (block.type :> TypePayload(block, content))

UpdateAnswer(type) == [isError |-> FALSE, kind |-> "updated", type |-> type]
NotFullAnswer == [isError |-> TRUE, kind |-> "not full"]
UnsupportedAnswer(type) ==
  [isError |-> TRUE, kind |-> "unsupported", type |-> type]
UpdateError(err) == [isError |-> TRUE, kind |-> "caught", error |-> err]

\* held is the provider's block, sent the arguments of blocks.update
\* the limiter as n earlier calls of the server, just made, have left it
LimAfter(n) ==
  /\ tokens = MAX_TOKENS - n /\ sinceRefill = 0 /\ queue = <<>>
  /\ draining = FALSE /\ timer = -1
  /\ calls = [c \in CallIds |-> NoCall]
  /\ fetchLog = <<>> /\ windowLoad = n

UbInit ==
  /\ SpanOff /\ DecOff /\ EncIdle /\ RepIdle /\ CliIdle
  /\ \E n \in 0..MAX_TOKENS : LimAfter(n)
  /\ bd = [phase |-> "off"]
  /\ \E held \in HeldBlocks :
       ub = [phase |-> "idle", held |-> held, content |-> <<>>,
             sent |-> <<>>, result |-> NoResult]

\* the handler is called: blocks.retrieve
UpdateBlockCall(content) ==
  /\ ub.phase = "idle"
  /\ ub' = [ub EXCEPT !.phase = "retrieving", !.content = content]
  /\ SetWorld(apiCall(World, <<0, "retrieve">>, UpdateId))
  /\ UNCHANGED <<bd, exceptTool>>

\* the handler returns without a further call
UpdateReturns(W, answer) ==
  /\ SetWorld(W)
  /\ ub' = [ub EXCEPT !.phase = "done", !.result = answer]
\* blocks.update is called with the payload
UpdateSends(W, payload) ==
  /\ SetWorld(apiCall(W, <<0, "update">>, UpdateId))
  /\ ub' = [ub EXCEPT !.phase = "updating", !.sent = Append(@, payload)]
\* blocks.retrieve has answered with existing
Retrieved(W, block) ==
  IF ~isFullBlock(block) THEN UpdateReturns(W, NotFullAnswer)
  ELSE IF block.type \notin TextTypes
  THEN UpdateReturns(W, UnsupportedAnswer(block.type))
  ELSE UpdateSends(W, UpdatePayload(block, ub.content))
RetrieveAnswered ==
  /\ ub.phase = "retrieving" /\ calls[<<0, "retrieve">>].st = "inflight"
  /\ Retrieved(Settled(World, <<0, "retrieve">>), ub.held)
  /\ UNCHANGED <<bd, exceptTool>>
\* blocks.update has answered
UpdateAnswered ==
  /\ ub.phase = "updating" /\ calls[<<0, "update">>].st = "inflight"
  /\ UpdateReturns(Settled(World, <<0, "update">>), UpdateAnswer(ub.held.type))
  /\ UNCHANGED <<bd, exceptTool>>
\* a call rejects: the catch answers
UpdateCaught(k, err) ==
  /\ ub.phase = (IF k = "retrieve" THEN "retrieving" ELSE "updating")
  /\ calls[<<0, k>>].st = "inflight"
  /\ UpdateReturns(Settled(World, <<0, k>>), UpdateError(err))
  /\ UNCHANGED <<bd, exceptTool>>

UbNext ==
  \/ \E content \in UpdateContents : UpdateBlockCall(content)
  \/ RetrieveAnswered
  \/ UpdateAnswered
  \/ \E k \in {"retrieve", "update"}, err \in Errors : UpdateCaught(k, err)
  \/ Tick
  \/ DrainWake

SpecUpdate == UbInit /\ [][UbNext]_vars

-----------------------------------------------------------------------------
(* Properties of the encode                                                 *)

\* the children.list requests of the invocation p, in the order issued
FetchedBy(log, p) == SelectSeq(log, LAMBDA e : e[1] = p)
Indent(l) == FirstNotIn(l, 1, WS) - 1
SummaryLine(b) ==
  SummaryOpen \o richTextToMarkdown(b.toggle.rich_text) \o SummaryClose

C6_State ==
  \A p \in Procs :
    "list" \in failed[p] =>
      /\ hPhase[p] = "done"
      /\ \E err \in Errors : result[p] = ErrorAnswer(err)
      /\ cfg[p].stack = <<>>
      /\ calls[<<p, "list">>].st = "none"
C6_Step ==
  \A p \in Procs :
    "list" \in failed[p] =>
      /\ result'[p] = result[p]
      /\ FetchedBy(fetchLog', p) = FetchedBy(fetchLog, p)
\* C6: once a children fetch of an invocation has failed, the handler has
\* answered with the error text alone (no rendered line), nothing of the
\* encode is left running, and the invocation issues no further fetch
\* (no retry, no sibling rendered after a skipped node) and never changes
\* its answer.
C6_FailurePropagates == []C6_State /\ [][C6_Step]_vars
\* a fetch two levels down failed, after the blocks above were rendered
C6_Witness ==
  \E p \in Procs :
    /\ failed[p] = {"list"} /\ hPhase[p] = "done" /\ result[p].isError
    /\ Len(FetchedBy(fetchLog, p)) >= 3

\* the lines of a rendered page around the summary line of the toggle b
\* with n children
C7_Around(ls, b, n) ==
  \A i \in 1..Len(ls) :
    StripIndent(ls[i]) = SummaryLine(b) =>
      /\ i > 1 /\ StripIndent(ls[i - 1]) = DetailsOpen
      /\ n >= 1 =>
           /\ i + n + 1 <= Len(ls)
           /\ \A j \in 1..n :
                /\ Indent(ls[i + j]) = Indent(ls[i - 1]) + Len(IndentUnit)
                /\ Indent(ls[i + j]) > Indent(ls[i])
           /\ ls[i + n + 1] = Prefix(Indent(ls[i - 1]) \div 2) \o DetailsClose
      /\ n = 0 => (i = Len(ls) \/ StripIndent(ls[i + 1]) # DetailsClose)
\* C7: in every page rendered, a toggle with n >= 1 (one-line) children is
\* the opening line, the summary line, the n children one indent level
\* deeper and indented strictly more than the summary line, then the closing
\* marker at the toggle's level; a toggle without children has no closing
\* marker.
C7_ToggleEncoding ==
  \A p \in Procs :
    (hPhase[p] = "done" /\ ~result[p].isError) =>
      \A id \in DOMAIN Store : \A k \in 1..Len(Store[id]) :
        Store[id][k].type = "toggle" =>
          C7_Around(SplitLines(result[p].text), Store[id][k],
                    IF Store[id][k].has_children
                    THEN Len(Store[Store[id][k].id]) ELSE 0)

C9_State ==
  \A p \in Procs :
    hPhase[p] = "done" =>
      IF failed[p] = {}
      THEN result[p] =
             Answer(hPage[p], blocksToMarkdown(Store, Store[hPage[p]], 0))
      ELSE result[p].isError
C9_Step ==
  \A q \in Procs :
    q # actor' => cfg'[q] = cfg[q] /\ result'[q] = result[q]
\* C9: with two invocations running at once over different pages and every
\* fetch passing the shared limiter, an invocation none of whose calls
\* failed answers exactly the text blocksToMarkdown computes for its page
\* alone, and no step of one invocation (or of the limiter) changes the
\* call stack, the lines or the answer of the other.
C9_NoInterference == []C9_State /\ [][C9_Step]_vars
\* both invocations have answered without error and their fetches were
\* issued interleaved
C9_Witness ==
  /\ \A p \in Procs : hPhase[p] = "done" /\ ~result[p].isError
  /\ \E i, j, k \in 1..Len(fetchLog) :
       /\ i < j /\ j < k
       /\ fetchLog[i][1] = fetchLog[k][1] /\ fetchLog[j][1] # fetchLog[i][1]

-----------------------------------------------------------------------------
(* Properties of replace_page_content                                       *)

\* the page as it was when the handler was called: existing, or, when no
\* delete was sent, the old blocks still on the page
OriginalPage ==
  IF existing # <<>> THEN existing
  ELSE SelectSeq(rPage, LAMBDA b : b.origin = "old")
\* the page made of exactly the blocks nb, in order
NewPage(nb) == [k \in 1..Len(nb) |-> PageBlock("new", k, nb[k])]

\* C10: when the handler has answered, the page holds exactly the blocks
\* decoded from the new content if the answer is the summary, and exactly
\* the original blocks if the answer is an error.
C10_Atomic ==
  rPhase = "done" =>
    IF rResult.isError THEN rPage = OriginalPage
    ELSE rPage = NewPage(markdownToBlocks(rContent))

-----------------------------------------------------------------------------
(* Properties of the rate limiter                                           *)

RECURSIVE Count(_, _)
Count(seq, x) ==
  IF seq = <<>> THEN 0
  ELSE (IF Head(seq) = x THEN 1 ELSE 0) + Count(Tail(seq), x)

\* C11: every call made through apiCall is admitted by the token bucket:
\* over any window of time the calls admitted are at most MAX_TOKENS plus one
\* per unit of refill time in the window (3 + 3T for T seconds); a call over
\* the rate waits in the queue, once, leaves the queue only by being
\* admitted, and is admitted later.
C11_State ==
  /\ windowLoad <= MAX_TOKENS
  /\ \A c \in CallIds :
       Count(queue, c) = (IF calls[c].st = "queued" THEN 1 ELSE 0)
C11_Step ==
  \A c \in CallIds :
    calls[c].st = "queued" => calls'[c].st \in {"queued", "inflight"}
\* the queue is emptied again and again: with C11_Step, whoever waits in it
\* is admitted
C11_Admitted == []<>(queue = <<>>)
-----------------------------------------------------------------------------
(* Properties of batch_delete_blocks                                        *)

RECURSIVE RejectedEntries(_, _, _)
RejectedEntries(ids, outcome, k) ==
  IF k > Len(ids) THEN <<>>
  ELSE (IF outcome[k].status = "rejected"
        THEN <<[id |-> ids[k], error |-> outcome[k].reason]>> ELSE <<>>)
       \o RejectedEntries(ids, outcome, k + 1)
ItemLines(lines) == SelectSeq(lines, LAMBDA l : l.kind = "item")

\* C12: batch_delete_blocks tolerates individual failures: the provider is
\* asked to delete every entry of block_ids exactly once whichever other
\* deletes fail, deleted + failed is the number of entries, every entry whose
\* delete was rejected is listed with its error, and isError is set exactly
\* when a delete was rejected.
C12_Tolerant ==
  /\ bd.phase \in {"deleting", "done"} =>
       \A k \in 1..Len(bd.ids) : bd.attempts[k] <= 1
  /\ bd.phase = "done" =>
       /\ \A k \in 1..Len(bd.ids) : bd.attempts[k] = 1
       /\ bd.deleted + Len(bd.failed) = Len(bd.ids)
       /\ bd.failed = RejectedEntries(bd.ids, bd.outcome, 1)
       /\ Head(bd.result.lines) = DeletedLine(bd.deleted, Len(bd.ids))
       /\ ItemLines(bd.result.lines)
            = [k \in 1..Len(bd.failed) |->
                 [kind |-> "item", id |-> bd.failed[k].id,
                  error |-> bd.failed[k].error]]
       /\ bd.result.isError
            <=> \E k \in 1..Len(bd.ids) : bd.outcome[k].status = "rejected"
\* two batches, deletes rejected in both, the others deleted
C12_Witness ==
  /\ bd.phase = "done" /\ Len(bd.ids) > BATCH_SIZE
  /\ Len(bd.failed) = 2 /\ bd.deleted = BATCH_SIZE - 1
  /\ bd.result.isError

-----------------------------------------------------------------------------
(* Properties of update_block                                               *)

Supported(block) == isFullBlock(block) /\ block.type \in TextTypes
ExtraKeys(type) ==
  CASE type = "to_do" -> {"checked"}
    [] type = "callout" -> {"icon"}
    [] type = "code" -> {"language"}
    [] OTHER -> {}

\* C13: update_block preserves the block's type and non-text payload: what
\* it sends to blocks.update carries, besides block_id, only the key of the
\* block's type, holding the new rich text and to_do.checked, callout.icon or
\* code.language as the block had them; for a block whose type has no text
\* support it answers with an error and never calls blocks.update.
C13_Sent(payload) ==
  /\ DOMAIN payload = {"block_id", ub.held.type}
  /\ payload["block_id"] = UpdateId
  /\ DOMAIN payload[ub.held.type] = {"rich_text"} \cup ExtraKeys(ub.held.type)
  /\ \A k \in ExtraKeys(ub.held.type) :
       payload[ub.held.type][k] = ub.held[ub.held.type][k]
  /\ payload[ub.held.type].rich_text
       = (IF ub.held.type = "code" THEN <<Plain(ub.content)>>
          ELSE parseInlineToRichText(ub.content))
C13_TypePreserved ==
  /\ Len(ub.sent) <= 1
  /\ \A n \in 1..Len(ub.sent) : C13_Sent(ub.sent[n])
  /\ ~Supported(ub.held) =>
       /\ ub.sent = <<>> /\ calls[<<0, "update">>].st = "none"
       /\ ub.phase = "done" => ub.result.isError
  /\ (ub.phase = "done" /\ ~ub.result.isError) =>
       /\ Len(ub.sent) = 1 /\ ub.result.type = ub.held.type
\* a checked to_do was updated with bold text; an image was refused
C13_Witness ==
  /\ ub.phase = "done" /\ ~ub.result.isError
  /\ ub.held.type = "to_do" /\ ub.held.to_do.checked
  /\ ub.sent[1]["to_do"].checked
  /\ ub.sent[1]["to_do"].rich_text[1].bold
C13_WitnessRefused ==
  /\ ub.phase = "done" /\ isFullBlock(ub.held) /\ ub.held.type = "image"
  /\ ub.result = UnsupportedAnswer("image")

-----------------------------------------------------------------------------
(* Properties of the tree walk, stated on one invocation alone.  The block  *)
(* tree is the provider's: the children of a block are what children.list   *)
(* answers for it.                                                          *)

Rendered == hPhase[1] = "done" /\ cfg[1].mode = "done"
Output == cfg[1].val
OutLines == SplitLines(Output)
\* the ids whose children were asked for, the root page aside
FetchedIds == {FetchedBy(fetchLog, 1)[n][2] : n \in 2..Len(FetchedBy(fetchLog, 1))}

\* the blocks of the tree under blocks with their levels: the children of a
\* node at d are at d + 1, the rows of a table, the columns of a column list
\* and the blocks inside a column at the level of the table or column list
RECURSIVE Levels(_, _, _)
LevelsUnder(K, b, d) ==
  CASE b.type \in {"table", "column_list", "column"} -> Levels(K, K[b.id], d)
    [] OTHER -> Levels(K, K[b.id], d + 1)
Levels(K, blocks, d) ==
  UNION {{[block |-> blocks[k], level |-> d]} \cup LevelsUnder(K, blocks[k], d) :
           k \in 1..Len(blocks)}
Tree == Levels(Store, Store[hPage[1]], 0)

\* the text only the block b can have put in the output: its capital
\* letters, or its type name when the type has no rendering
Dedicated ==
  {"paragraph", "heading_1", "heading_2", "heading_3", "bulleted_list_item",
   "numbered_list_item", "to_do", "toggle", "code", "quote", "callout",
   "divider", "image", "bookmark", "table", "child_page", "child_database",
   "embed", "video", "file", "pdf", "equation", "table_of_contents",
   "breadcrumb", "column_list", "column", "table_row"}
Capitals(t) == SelectSeq(t, LAMBDA ch : ch \in UpperCh)
OwnMarks(b) ==
  CASE b.type \in {"table", "column_list", "column"} -> <<>>
    [] b.type = "table_row" -> Capitals(RowLine(b.table_row.cells))
    [] b.type \notin Dedicated -> <<b.type>>
    [] OTHER -> Capitals(OwnLine(b, <<>>))
Occurs(x, t) == \E k \in 1..Len(t) : t[k] = x
Placeholder(b) == CommentOpen \o UnsupportedText \o <<b.type>> \o CommentClose

\* C15: no silent loss in the tree walk: every block the provider returned
\* has its text on a line of the output; a block whose type has no
\* rendering has a comment line carrying the type name, and its children are
\* fetched and rendered when it has children.
C15_NoSilentLoss ==
  Rendered =>
    \A e \in Tree :
      /\ \A k \in 1..Len(OwnMarks(e.block)) :
           \E n \in 1..Len(OutLines) : Occurs(OwnMarks(e.block)[k], OutLines[n])
      /\ e.block.type \notin Dedicated =>
           /\ \E n \in 1..Len(OutLines) :
                OutLines[n] = Prefix(e.level) \o Placeholder(e.block)
           /\ e.block.has_children => e.block.id \in FetchedIds

\* the blocks under blocks in depth-first pre-order: a block, then the whole
\* of what is below it, then its next sibling, the siblings in the order
\* the provider returns them
RECURSIVE PreOrder(_, _)
PreOrder(K, blocks) ==
  Concat([k \in 1..Len(blocks) |->
            <<blocks[k]>> \o PreOrder(K, K[blocks[k].id])])
PreOrderMarks ==
  LET bs == PreOrder(Store, Store[hPage[1]])
  IN Concat([k \in 1..Len(bs) |-> OwnMarks(bs[k])])
\* the marks of the output in the order they stand in it
MarkSet == UpperCh \cup {e.block.type : e \in {x \in Tree : x.block.type \notin Dedicated}}
OutMarks == SelectSeq(Output, LAMBDA ch : ch \in MarkSet)
PositionIn(t, x) == CHOOSE k \in 1..Len(t) : t[k] = x

\* C16: the output is a depth-first pre-order of the block tree: the text
\* of a block stands before the text of every descendant, a whole subtree
\* before the next sibling, siblings in the order the provider returned
\* them (every mark of the output is a mark of the tree, and the marks
\* stand in the output in their pre-order).
C16_PreOrder ==
  Rendered =>
    /\ \A n \in 1..Len(OutMarks) : Occurs(OutMarks[n], PreOrderMarks)
    /\ \A m, n \in 1..Len(OutMarks) :
         m < n => PositionIn(PreOrderMarks, OutMarks[m])
                    < PositionIn(PreOrderMarks, OutMarks[n])

\* a bulleted item holding a toggle holding a paragraph, then a sibling
\* toggle: three levels and two siblings are in the output
C16_Witness ==
  /\ Rendered
  /\ hPage[1] = "B"
  /\ OutMarks = <<"L", "N", "J", "E">>

\* the frames of a suspended encode: the call of blockToMarkdown that
\* awaits collectAllBlocks and the call of blocksToMarkdown that made it
\* (the handler's own fetch of the page's blocks has no frame)
Awaiting == cfg[1].mode = "fetch" /\ cfg[1].stack # <<>>
Node == Top(cfg[1])
Caller == cfg[1].stack[Len(cfg[1].stack) - 1]
\* the fetches of a node's own children: after the switch, or inside the
\* table and column_list cases
OwnFetch == Awaiting /\ Node.at \in {"kids", "rows", "columns"}

\* C17 as stated: when the children of a node are fetched, the node's own
\* line is already appended to the lines being accumulated.
C17_Original == OwnFetch => Len(Caller.lines) >= Caller.k

\* C17: when the children of a node are fetched after the switch, the
\* node's own line is already computed and held by the suspended call, and
\* it is not yet appended to the accumulated lines (the call pushes line
\* and children together when it returns); a table or column list fetches
\* before it has a line at all.
C17_LineHeld ==
  OwnFetch =>
    /\ Node.block = Caller.blocks[Caller.k]
    /\ Len(Caller.lines) = Caller.k - 1
    /\ Node.at = "kids" =>
         Node.line = OwnLine(Node.block, Prefix(Node.indent))
    /\ Node.at \in {"rows", "columns"} => Node.line = <<>>

\* the children of a toggle two levels down are fetched while the toggle's
\* summary line is held
C17_Witness ==
  /\ OwnFetch
  /\ Node.at = "kids"
  /\ Node.block.type = "toggle"
  /\ Node.indent = 1
  /\ Node.line # <<>>

\* the lines of the output that carry the text of the block b
LinesOf(b) ==
  {n \in 1..Len(OutLines) :
     \E k \in 1..Len(OwnMarks(b)) : Occurs(OwnMarks(b)[k], OutLines[n])}

\* C18: every output line rendered for a block at indent level d starts
\* with exactly d indent units of two spaces, whatever the block's type.
C18_Indentation ==
  Rendered =>
    \A e \in Tree : \A n \in LinesOf(e.block) :
      Indent(OutLines[n]) = Len(IndentUnit) * e.level

\* the blocks of the tree, and the columns that stand directly under a
\* column list
TreeBlocks == {e.block : e \in Tree}
ListedColumns ==
  {c \in TreeBlocks :
     /\ c.type = "column"
     /\ \E l \in TreeBlocks :
          l.type = "column_list" /\ \E k \in 1..Len(Store[l.id]) : Store[l.id][k] = c}
Structural == {"table", "column_list", "column"}

RowsOf(t) == SelectSeq(Store[t.id], LAMBDA r : r.type = "table_row")

\* C20: for a table whose fetched children hold at least one table row, the
\* first row is a header line immediately followed by one separator line
\* with a --- cell per header cell, every later row is one data line, in
\* order, and no fetch is issued for the children of a row.
C20_TableEncoding ==
  Rendered =>
    \A e \in {x \in Tree : x.block.type = "table"} :
      LET rows == RowsOf(e.block)
          pre == Prefix(e.level)
      IN rows # <<>> =>
           /\ \E n \in 1..Len(OutLines) :
                /\ n + Len(rows) <= Len(OutLines)
                /\ OutLines[n] = pre \o RowLine(rows[1].table_row.cells)
                /\ OutLines[n + 1] = pre \o SeparatorLine(rows[1].table_row.cells)
                /\ \A k \in 2..Len(rows) :
                     OutLines[n + k] = pre \o RowLine(rows[k].table_row.cells)
           /\ \A k \in 1..Len(rows) : rows[k].id \notin FetchedIds

\* the columns the provider returns for a column list, and the lines of
\* the output that carry the text of the blocks in a column
ColumnsOf(l) == SelectSeq(Store[l.id], LAMBDA c : c.type = "column")
ColumnBlocks(c) == PreOrder(Store, Store[c.id])
ColumnLines(c) ==
  UNION {LinesOf(ColumnBlocks(c)[k]) : k \in 1..Len(ColumnBlocks(c))}

\* C21: the children of each column of a column list are fetched and
\* rendered, and the columns' texts stand in the output in the order the
\* provider returned the columns, one column complete before the next
\* begins, with exactly one blank line between two columns.
C21_ColumnList ==
  Rendered =>
    \A e \in {x \in Tree : x.block.type = "column_list"} :
      LET cols == ColumnsOf(e.block)
      IN /\ e.block.id \in FetchedIds
         /\ \A k \in 1..Len(cols) :
              /\ cols[k].id \in FetchedIds
              /\ \A j \in 1..Len(ColumnBlocks(cols[k])) :
                   LinesOf(ColumnBlocks(cols[k])[j]) # {}
         /\ \A k \in 1..(Len(cols) - 1) :
              /\ Max(ColumnLines(cols[k])) + 2 = Min(ColumnLines(cols[k + 1]))
              /\ AllSpace(OutLines[Max(ColumnLines(cols[k])) + 1])

\* a column of two paragraphs and a column of one, one level down
C21_Witness ==
  /\ Rendered
  /\ hPage[1] = "F"
  /\ \E n \in 1..Len(OutLines) :
       /\ Occurs("C", OutLines[n])
       /\ AllSpace(OutLines[n + 1])
       /\ Occurs("D", OutLines[n + 2])

-----------------------------------------------------------------------------
(* Properties of the span decode, stated on the tokens of the scan: the    *)
(* matches regex.exec returns one after another, each with the index it    *)
(* starts at, the index after its end, and the alternative that matched.   *)

\* match[9] !== undefined: none of the six reserved alternatives matched
PlainAt(t, p) ==
  /\ ~MatchMention(t, p).ok /\ ~MatchLink(t, p).ok /\ ~MatchBold(t, p).ok
  /\ ~MatchItalic(t, p).ok /\ ~MatchCode(t, p).ok /\ ~MatchStrike(t, p).ok
RECURSIVE InlineTokens(_, _)
TokenTake(t, p, m) ==
  IF m.ok
  THEN <<[from |-> p, next |-> m.next, item |-> m.item, plain |-> PlainAt(t, p)]>>
         \o InlineTokens(t, m.next)
  ELSE InlineTokens(t, p + 1)
InlineTokens(t, p) ==
  IF p > Len(t) THEN <<>> ELSE TokenTake(t, p, InlineMatchAt(t, p))
\* a well-formed {{page:ID}} / {{database:ID}} or [text](url) opens at p
OpensReserved(t, p) == MatchMention(t, p).ok \/ MatchLink(t, p).ok

\* C22: in span decode, a { that opens a well-formed mention placeholder
\* and a [ that opens a well-formed hyperlink are never inside a plain-text
\* token, whatever stands before them.
C22_ReservedWins ==
  sPhase = "decoded" =>
    \A k \in 1..Len(InlineTokens(sText, 1)) :
      LET tok == InlineTokens(sText, 1)[k]
      IN tok.plain =>
           \A q \in tok.from..(tok.next - 1) : ~OpensReserved(sText, q)

-----------------------------------------------------------------------------
(* The language of a decoded code block.                                    *)

\* the tag as written on an opening fence line: what follows the fence, up
\* to the first white space
TagOf(line) ==
  Slice(Trim(line), 4, FirstIn(Trim(line), 4, WS) - 1)
\* the alias table of the specification
Canonical(tag) ==
  CASE tag = <<"j","s">> -> <<"j","a","v","a","s","c","r","i","p","t">>
    [] tag = <<"t","s">> -> <<"t","y","p","e","s","c","r","i","p","t">>
    [] tag = <<"p","y">> -> <<"p","y","t","h","o","n">>
    [] tag = <<"r","b">> -> <<"r","u","b","y">>
    [] tag = <<"s","h">> -> <<"b","a","s","h">>
    [] tag = <<"y","m","l">> -> <<"y","a","m","l">>
    [] tag = <<"m","d">> -> <<"m","a","r","k","d","o","w","n">>
    [] tag = <<>> -> PlainText
    [] OTHER -> tag

\* C23: the language of a decoded code block is the canonical name when
\* the fence's tag is in the alias table, "plain text" when the tag is
\* empty, and otherwise the tag as written on the fence line, lower-cased.
C23_FenceLanguage ==
  (dPhase = "done" /\ dLines # <<>> /\ IsFence(dLines[1])) =>
     /\ dBlocks # <<>>
     /\ dBlocks[1].type = "code"
     /\ dBlocks[1].code.language = Canonical(ToLower(TagOf(dLines[1])))

-----------------------------------------------------------------------------
(* The span encode of literal runs.                                         *)

\* the markers that stand before the text of a run, outermost first, and
\* those that stand after it, innermost first
Opening(r) ==
  (IF r.link # <<>> THEN <<"[">> ELSE <<>>)
  \o (IF r.strikethrough THEN <<"~","~">> ELSE <<>>)
  \o (IF r.italic THEN <<"*">> ELSE <<>>)
  \o (IF r.bold THEN <<"*","*">> ELSE <<>>)
  \o (IF r.code THEN <<BTick>> ELSE <<>>)
Closing(r) ==
  (IF r.code THEN <<BTick>> ELSE <<>>)
  \o (IF r.bold THEN <<"*","*">> ELSE <<>>)
  \o (IF r.italic THEN <<"*">> ELSE <<>>)
  \o (IF r.strikethrough THEN <<"~","~">> ELSE <<>>)
  \o (IF r.link # <<>> THEN <<"]", "(">> \o r.link[1] \o <<")">> ELSE <<>>)
Literal(r) == r.kind = "text" /\ r.content # <<>>

\* C24: a literal run with non-empty text is encoded with the code marker
\* innermost, then bold, then italic, then strikethrough, for every set of
\* annotations, the hyperlink wrapper outermost; the runs are concatenated
\* in sequence order with nothing between them.
C24_Nesting ==
  (sPhase = "encoded" /\ \A k \in 1..Len(sRuns) : Literal(sRuns[k])) =>
     sText = Concat([k \in 1..Len(sRuns) |->
                       Opening(sRuns[k]) \o sRuns[k].content \o Closing(sRuns[k])])

\* a linked run that carries all four annotations
C24_Witness ==
  /\ sPhase = "encoded"
  /\ Len(sRuns) = 1
  /\ Literal(sRuns[1])
  /\ sRuns[1].code /\ sRuns[1].bold /\ sRuns[1].italic /\ sRuns[1].strikethrough
  /\ sRuns[1].link # <<>>
  /\ Len(sText) > Len(sRuns[1].content) + 12

-----------------------------------------------------------------------------
(* The fetches of one get_page invocation.                                  *)

\* the calls of the invocation p that have not settled
Outstanding(p) == {k \in CallKinds : calls[<<p, k>>].st # "none"}
NoRepeat(q) == \A m, n \in 1..Len(q) : q[m] = q[n] => m = n

C25_State ==
  /\ hPhase[1] = "encoding" =>
       /\ Outstanding(1) \subseteq {"list"}
       /\ cfg[1].mode = "fetch" <=> Outstanding(1) = {"list"}
       /\ cfg[1].mode = "fetch" => calls[<<1, "list">>].arg = cfg[1].val
  /\ NoRepeat(FetchedBy(fetchLog, 1))
  /\ "list" \in failed[1] => Outstanding(1) \subseteq {"meta"}
C25_Step ==
  /\ Len(FetchedBy(fetchLog', 1)) <= Len(FetchedBy(fetchLog, 1)) + 1
  /\ "list" \in failed[1] =>
       /\ FetchedBy(fetchLog', 1) = FetchedBy(fetchLog, 1)
       /\ calls'[<<1, "list">>] = calls[<<1, "list">>]
\* C25: while an encode runs, at most one fetch of the invocation is
\* outstanding, the one the encode is suspended at; the children of no
\* block are fetched twice; once a fetch has failed the invocation issues
\* no further fetch.
C25_FetchDiscipline == []C25_State /\ [][C25_Step]_vars

\* the fourth fetch of an encode failed after three had answered
C25_Witness ==
  /\ failed[1] = {"list"}
  /\ hPhase[1] = "done"
  /\ Len(FetchedBy(fetchLog, 1)) >= 4
  /\ Outstanding(1) = {}

-----------------------------------------------------------------------------
(* The order of admission in the rate limiter.                              *)

\* the calls a step admits: their function is invoked in the step
AdmittedNow == {c \in CallIds : calls[c].st # "inflight" /\ calls'[c].st = "inflight"}
\* the step takes calls from the head of the queue, in order
HeadTaken ==
  \E n \in 0..Len(queue) :
    /\ \A k \in 1..n : queue[k] \in AdmittedNow
    /\ Len(queue') >= Len(queue) - n
    /\ \A k \in (n + 1)..Len(queue) : queue'[k - n] = queue[k]

C26_Step ==
  /\ HeadTaken
  /\ queue # <<>> => \A c \in AdmittedNow : calls[c].st = "queued"
\* C26: no overtaking: while a call waits in the queue, a call that arrives
\* later is not admitted before it; calls leave the queue from the head.
C26_NoOvertaking == [][C26_Step]_vars

-----------------------------------------------------------------------------
(* The waiters of the rate limiter.                                         *)

\* a drain loop is active and asleep on its timer
LoopAsleep == draining /\ timer >= 0
C27_State ==
  /\ queue # <<>> => LoopAsleep
  /\ draining => queue # <<>>
\* a call that finds a loop active starts no second one: the loop's timer is
\* left as it is
C27_Step ==
  (draining /\ Len(queue') > Len(queue)) => draining' /\ timer' = timer
C27_Admitted ==
  \A c \in ClientCalls :
    (calls[c].st = "queued") ~> (calls[c].st = "inflight")
\* C27: no stranded waiter: whenever the queue is non-empty one drain loop
\* is active, a call queued while the loop sleeps starts no second loop,
\* and every queued call is eventually admitted as time advances.
C27_NoStrandedWaiter == []C27_State /\ [][C27_Step]_vars /\ C27_Admitted

-----------------------------------------------------------------------------
(* The accounting of tokens.                                                *)

\* what refillTokens makes of the bucket at the start of a step
Refilled == Min({MAX_TOKENS, tokens + sinceRefill})
C28_State == tokens \in 0..MAX_TOKENS
C28_Step ==
  LET n == Cardinality(AdmittedNow)
  IN /\ n > 0 => Refilled >= n /\ tokens' = Refilled - n
     /\ n = 0 => tokens' \in {tokens, Refilled}
\* C28: tokens stays within 0..MAX_TOKENS; a call is admitted only when the
\* bucket holds a token for it, every admission lowers tokens by exactly
\* one, and the function of a call is invoked only in the step that takes
\* its token.
C28_TokenAccounting == []C28_State /\ [][C28_Step]_vars

\* the bucket is empty after three admissions, the three calls are running
\* and a fourth waits
C28_Witness ==
  /\ tokens = 0
  /\ Cardinality({c \in ClientCalls : calls[c].st = "inflight"}) = MAX_TOKENS
  /\ Len(queue) = 1
  /\ sinceRefill = 0

-----------------------------------------------------------------------------
(* The phases of replace_page_content.                                      *)

\* the deletes that have not settled, the new blocks on the page
DeletesOut == {j \in 1..DELETE_BATCH_SIZE : calls[<<j, "delete">>].st # "none"}
NewOnPage == SelectSeq(rPage, LAMBDA b : b.origin = "new")
AppendOut == calls[<<0, "append">>].st # "none"

\* C29: replace_page_content deletes, then appends: the deletes outstanding
\* are those of one batch of at most 10, a batch is sent when the one
\* before has settled whole, no append is issued before every delete has
\* settled, the new blocks reach the page in batches of at most 50, one
\* after another, in decode order, and deleted + failed-to-delete is the
\* number of blocks that existed.
C29_Phases ==
  /\ rPhase = "deleting" =>
       /\ rI % DELETE_BATCH_SIZE = 1
       /\ \A j \in DeletesOut :
            /\ rI + j - 1 <= Len(existing)
            /\ calls[<<j, "delete">>].arg = existing[rI + j - 1].n
       /\ deletedCount + Len(deleteFailed) = rI - 1
       /\ ~AppendOut /\ NewOnPage = <<>>
  /\ AppendOut =>
       /\ rPhase = "appending"
       /\ DeletesOut = {}
       /\ deletedCount + Len(deleteFailed) = Len(existing)
  /\ rPhase = "appending" =>
       /\ newBlocks = markdownToBlocks(rContent)
       /\ rJ % INSERT_BATCH_SIZE = 1 /\ rJ <= Len(newBlocks)
       /\ createdCount = rJ - 1
       /\ NewOnPage = NewPage(SubSeq(newBlocks, 1, rJ - 1))
  /\ (rPhase = "done" /\ ~rResult.isError) =>
       /\ rResult.totalToDelete = Len(existing)
       /\ rResult.deletedCount + Len(rResult.deleteFailed) = Len(existing)
       /\ rResult.createdCount = Len(newBlocks)
       /\ NewOnPage = NewPage(newBlocks)

\* a page of eleven blocks, one delete refused, the second batch of a
\* content of 51 blocks on its way
C29_Witness ==
  /\ rPhase = "appending"
  /\ Len(existing) = DELETE_BATCH_SIZE + 1
  /\ Len(deleteFailed) >= 1
  /\ rJ = INSERT_BATCH_SIZE + 1
  /\ AppendOut

-----------------------------------------------------------------------------
(* The cover of the span decode.                                            *)

Tokens == InlineTokens(sText, 1)
ItemsOf(toks) == [k \in 1..Len(toks) |-> toks[k].item]

\* C30: parseInlineMarkdown covers its input exactly: the tokens follow one
\* another from the first character to the last with no gap and no
\* overlap, every token is non-empty (the scan ends), a plain token holds
\* exactly the characters it covers, and the runs returned are the tokens'
\* runs in order; a non-empty input with no token is returned as one
\* literal run, the empty input yields no run.
C30_Cover ==
  sPhase = "decoded" =>
    /\ \A k \in 1..Len(Tokens) :
         /\ Tokens[k].from = (IF k = 1 THEN 1 ELSE Tokens[k - 1].next)
         /\ Tokens[k].next > Tokens[k].from
         /\ Tokens[k].plain =>
              Tokens[k].item = Plain(Slice(sText, Tokens[k].from, Tokens[k].next - 1))
    /\ Tokens # <<>> => Tokens[Len(Tokens)].next = Len(sText) + 1
    /\ Tokens # <<>> => sOut = ItemsOf(Tokens)
    /\ (Tokens = <<>> /\ sText # <<>>) => sOut = <<Plain(sText)>>
    /\ sText = <<>> => sOut = <<>>

\* a run of marker characters that opens nothing stands between a bold
\* token and a text token
C30_Witness ==
  /\ sPhase = "decoded"
  /\ Len(Tokens) = 3
  /\ ~Tokens[1].plain
  /\ Tokens[2].plain /\ Tokens[2].item.content[1] \in InlineSpecial
  /\ Tokens[3].plain /\ Tokens[3].item.content[1] \notin InlineSpecial

====
